---- MODULE Spec2Model ----
(***************************************************************************)
(* A model of pixel_loop: the fixed-timestep scheduler (PixelLoop), the    *)
(* crossterm keyboard input state machine (CrosstermInputState), the       *)
(* terminal diff renderer (CrosstermCanvas) and the terminal driving loop. *)
(* Each subsystem has its own specification over its own variables; the    *)
(* variables of the other subsystems stay at their initial values.         *)
(***************************************************************************)
EXTENDS Integers, Sequences, FiniteSets, TLC

VARIABLES
    \* ---- PixelLoop (src/src/pixel_loop/lib.rs) ----
    loop_status,      \* "panicked" | "running" | "failed"
    update_fps,       \* constructor argument
    update_timestep,  \* nanoseconds
    accumulator,      \* nanoseconds
    hist,             \* one record per next_loop call made so far
    \* ---- CrosstermInputState (src/src/pixel_loop/input/crossterm.rs) ----
    input_phase,                   \* "created" | "begun"
    event_queue,
    keys_down,                     \* HashMap<KeyboardKey, usize>
    keys_pressed_this_update,
    keys_released_this_update,
    event_cycles_before_released,
    enhanced_keyboard,
    last_result,                   \* what the latest InputState::next_loop returned
    last_interrupt,                \* place of the first reserved interrupt in the latest batch, or 0
    quiet,                         \* per key: event-free refreshes since its lone press
    last_report,                   \* per key: "none" | "pressed" | "released", its latest report
    \* ---- CrosstermCanvas (src/src/pixel_loop/canvas/crossterm.rs) ----
    width,
    height,
    buffer,            \* row-major sequence of colors; index i of the code is i + 1 here
    previous_buffer,
    patches,           \* what the latest render wrote, until the canvas is touched again
    render_result,     \* "None" | "Ok" | "Err": how the latest render ended
    clean,             \* no set_range and no resize since the latest successful render
    fresh,             \* no successful render since new_with_size or the latest resize_surface
    \* ---- the driving loops (CrosstermCanvas::run, PixelsCanvas::run) ----
    backend,           \* "none" | "crossterm" | "pixels"
    run_pc,            \* "created" | "running" | "exit_pending" | "terminated" | "panicked"
    raw_mode,          \* the terminal is in raw mode
    last_loop_width,
    last_loop_height,
    exit_code,         \* PixelsCanvas::run: let mut exit_code
    panic_cause,       \* which expect()/unwrap() panicked, or "none"
    finish_codes,      \* the codes finish was invoked with, in order
    exit_result,       \* << >> or <<code>>: the first Exit(code) next_loop yielded
    calls_after_exit,  \* update and render invocations made after that Exit
    run_iter,          \* iterations of the driving loop made so far
    last_poll,         \* the latest iteration of CrosstermCanvas::run: events polled, calls made
    \* ---- Canvas (src/src/pixel_loop/canvas/mod.rs) on an InMemoryCanvas ----
    in_memory,         \* struct InMemoryCanvas: [buffer, width, height]
    call,              \* the latest call of a Canvas method: arguments, canvas before, outcome
    \* ---- frame pacing of CrosstermCanvas (src/src/pixel_loop/canvas/crossterm.rs) ----
    frame_limit_nanos, \* the frame budget in nanoseconds
    last_frame_time,   \* Instant of the latest frame, in nanoseconds since construction
    now,               \* the monotonic clock at the most recent point modelled
    frame_wait,        \* the latest wait_for_next_frame: what it read, slept and spun
    frames,            \* calls of wait_for_next_frame so far
    \* ---- one Patch under construction (struct Patch, canvas/crossterm.rs) ----
    row_patch,         \* the Patch: [position, data, previous_colors]
    row_cells          \* the (upper, lower) pairs add_two_row_pixel was called with, in order

loop_vars == <<loop_status, update_fps, update_timestep, accumulator, hist>>
input_vars == <<input_phase, event_queue, keys_down, keys_pressed_this_update,
                keys_released_this_update, event_cycles_before_released,
                enhanced_keyboard, last_result, last_interrupt, quiet, last_report>>

canvas_vars == <<width, height, buffer, previous_buffer, patches, render_result, clean, fresh>>

run_vars == <<backend, run_pc, raw_mode, last_loop_width, last_loop_height, exit_code,
              panic_cause, finish_codes, exit_result, calls_after_exit, run_iter, last_poll>>

draw_vars == <<in_memory, call>>

frame_vars == <<frame_limit_nanos, last_frame_time, now, frame_wait, frames>>

patch_vars == <<row_patch, row_cells>>

vars == <<loop_vars, input_vars, canvas_vars, run_vars, draw_vars, frame_vars, patch_vars>>

Min(a, b) == IF a < b THEN a ELSE b
Max(a, b) == IF a > b THEN a ELSE b

RECURSIVE SumOver(_, _)
\* sum of field f over a sequence of records
SumOver(s, f) == IF s = <<>> THEN 0 ELSE s[1][f] + SumOver(Tail(s), f)

RECURSIVE CountOf(_, _)
CountOf(s, e) == IF s = <<>> THEN 0
                 ELSE (IF s[1] = e THEN 1 ELSE 0) + CountOf(Tail(s), e)

(***************************************************************************)
(* std::time::Duration is a pair <<secs, nanos>>; after the clamp of       *)
(* next_loop every duration is below 2^31 ns and is kept as nanoseconds.   *)
(***************************************************************************)
NanosPerSec == 1000000000
NanosPerMilli == 1000000
MaxDtMillis == 100

from_millis(ms) == <<ms \div 1000, (ms % 1000) * NanosPerMilli>>
DurationGT(a, b) == a[1] > b[1] \/ (a[1] = b[1] /\ a[2] > b[2])
as_nanos(d) == d[1] * NanosPerSec + d[2]

\* (1_000_000_000f64 / update_fps as f64).round() as u64
TimestepNanos(fps) ==
    LET q == NanosPerSec \div fps
        r == NanosPerSec % fps
    IN IF r >= fps - r THEN q + 1 ELSE q

\* a clamp that takes the limit in the wrong unit (seconds for milliseconds/10)
ClampDtOneSecond(raw) == IF DurationGT(raw, <<1, 0>>) THEN NanosPerSec ELSE as_nanos(raw)

\* if dt > Duration::from_millis(100) { dt = Duration::from_millis(100); }
ClampDt(raw) ==
    IF DurationGT(raw, from_millis(MaxDtMillis))
    THEN as_nanos(from_millis(MaxDtMillis))
    ELSE as_nanos(raw)

RECURSIVE DrainLoopDropsRemainder(_, _, _, _)
\* a drain loop that leaves nothing in the accumulator
DrainLoopDropsRemainder(acc, tick, log, fail_at) ==
    IF acc > tick
    THEN IF fail_at = Len(log) + 1
         THEN [acc |-> acc, log |-> Append(log, "update"), ok |-> FALSE]
         ELSE DrainLoopDropsRemainder(acc - tick, tick, Append(log, "update"), fail_at)
    ELSE [acc |-> 0, log |-> log, ok |-> TRUE]

RECURSIVE DrainLoopUnchecked(_, _, _, _)
\* a drain loop that drops the result of the update callback
DrainLoopUnchecked(acc, tick, log, fail_at) ==
    IF acc > tick
    THEN DrainLoopUnchecked(acc - tick, tick, Append(log, "update"), fail_at)
    ELSE [acc |-> acc, log |-> log, ok |-> TRUE]

RECURSIVE DrainLoop(_, _, _, _)
\* while self.accumulator > self.update_timestep { (self.update)(..)?; self.accumulator -= .. }
\* fail_at = i > 0: the i-th update of this iteration returns Err
DrainLoop(acc, tick, log, fail_at) ==
    IF acc > tick
    THEN IF fail_at = Len(log) + 1
         THEN [acc |-> acc, log |-> Append(log, "update"), ok |-> FALSE]
         ELSE DrainLoop(acc - tick, tick, Append(log, "update"), fail_at)
    ELSE [acc |-> acc, log |-> log, ok |-> TRUE]

\* a next_loop that renders only when the simulation advanced
next_loop_render_on_update(acc, tick, dt, fail_at, render_ok) ==
    LET d == DrainLoop(acc, tick, <<>>, fail_at) IN
    IF ~d.ok THEN [accumulator |-> d.acc, calls |-> d.log, result |-> "Err"]
    ELSE IF d.log = <<>>
         THEN [accumulator |-> d.acc + dt, calls |-> d.log, result |-> "Ok"]
    ELSE IF ~render_ok
         THEN [accumulator |-> d.acc, calls |-> Append(d.log, "render"), result |-> "Err"]
    ELSE [accumulator |-> d.acc + dt, calls |-> Append(d.log, "render"), result |-> "Ok"]

\* PixelLoop::next_loop after dt has been measured and clamped
next_loop(acc, tick, dt, fail_at, render_ok) ==
    LET d == DrainLoop(acc, tick, <<>>, fail_at) IN
    IF ~d.ok THEN [accumulator |-> d.acc, calls |-> d.log, result |-> "Err"]
    ELSE IF ~render_ok
         THEN [accumulator |-> d.acc, calls |-> Append(d.log, "render"), result |-> "Err"]
    ELSE [accumulator |-> d.acc + dt, calls |-> Append(d.log, "render"), result |-> "Ok"]

(***************************************************************************)
(* CrosstermInputState                                                     *)
(***************************************************************************)
KeyboardKeys == {"A", "C"}
NoKey == "None"
NoModifiers == {}
CONTROL == {"CONTROL"}

KeyEvent(kind, code, modifiers) ==
    [type |-> "Key", kind |-> kind, code |-> code, modifiers |-> modifiers,
     columns |-> 0, rows |-> 0]
ResizeEvent(columns, rows) ==
    [type |-> "Resize", kind |-> "-", code |-> "-", modifiers |-> {},
     columns |-> columns, rows |-> rows]

\* the crossterm events the terminal delivers
Events ==
    { KeyEvent("Press", "a", NoModifiers),
      KeyEvent("Release", "a", NoModifiers),
      KeyEvent("Repeat", "a", NoModifiers),
      KeyEvent("Press", "c", NoModifiers),
      KeyEvent("Press", "c", CONTROL),
      KeyEvent("Press", "C", CONTROL),
      KeyEvent("Release", "c", CONTROL),
      KeyEvent("Press", "C", {"CONTROL", "SHIFT"}),
      KeyEvent("Press", "BackTab", NoModifiers),
      ResizeEvent(1, 1) }

\* fn map_crossterm_keycode_to_pixel_loop
map_crossterm_keycode_to_pixel_loop(code) ==
    CASE code \in {"a", "A"} -> "A"
      [] code \in {"c", "C"} -> "C"
      [] OTHER -> NoKey

\* a countdown that evicts a key one refresh late: it tests for 0 before decrementing
decrement_key_ref_counts_late(hmap) ==
    LET kept == {k \in DOMAIN hmap : hmap[k] # 0}
    IN [hmap |-> [k \in kept |-> hmap[k] - 1], removed_keys |-> (DOMAIN hmap) \ kept]

\* fn decrement_key_ref_counts: the retained map and the removed keys
decrement_key_ref_counts(hmap) ==
    LET dec(k) == IF hmap[k] > 0 THEN hmap[k] - 1 ELSE hmap[k]
        kept == {k \in DOMAIN hmap : dec(k) # 0}
    IN [hmap |-> [k \in kept |-> dec(k)], removed_keys |-> (DOMAIN hmap) \ kept]

\* HashMap::insert
MapInsert(m, k, v) == [x \in (DOMAIN m) \cup {k} |-> IF x = k THEN v ELSE m[x]]
\* HashMap::remove
MapRemove(m, k) == [x \in (DOMAIN m) \ {k} |-> m[x]]

RECURSIVE FallbackEvents(_, _, _)
\* the `for event in next_events` loop of next_loop_fallback
FallbackEvents(st, evs, cycles) ==
    IF evs = <<>> THEN st
    ELSE LET e == Head(evs)
             key == map_crossterm_keycode_to_pixel_loop(e.code)
             st1 == IF e.type = "Key" /\ e.kind = "Press" /\ key # NoKey
                    THEN [st EXCEPT
                            !.down = MapInsert(st.down, key, cycles),
                            !.pressed = IF key \in DOMAIN st.down
                                        THEN @ ELSE @ \cup {key}]
                    ELSE st
         IN FallbackEvents(st1, Tail(evs), cycles)

\* a next_loop_fallback that reports every evicted key released
next_loop_fallback_release_all(st, next_events, cycles) ==
    LET d   == decrement_key_ref_counts(st.down)
        st0 == [down |-> d.hmap, pressed |-> {}, released |-> {}]
        st1 == FallbackEvents(st0, next_events, cycles)
    IN [st1 EXCEPT !.released = d.removed_keys]

\* fn next_loop_fallback
next_loop_fallback(st, next_events, cycles) ==
    LET d   == decrement_key_ref_counts(st.down)
        st0 == [down |-> d.hmap, pressed |-> {}, released |-> {}]
        st1 == FallbackEvents(st0, next_events, cycles)
    IN [st1 EXCEPT !.released = {k \in d.removed_keys : k \notin DOMAIN st1.down}]

RECURSIVE EnhancedEvents(_, _, _)
\* the `for event in next_events` loop of next_loop_enhanced
EnhancedEvents(st, evs, cycles) ==
    IF evs = <<>> THEN st
    ELSE LET e == Head(evs)
             key == map_crossterm_keycode_to_pixel_loop(e.code)
             st1 == IF e.type = "Key" /\ key # NoKey
                    THEN CASE e.kind = "Press" ->
                                [st EXCEPT
                                   !.down = MapInsert(st.down, key, cycles),
                                   !.pressed = IF key \in DOMAIN st.down
                                               THEN @ ELSE @ \cup {key}]
                           [] e.kind = "Release" ->
                                [st EXCEPT
                                   !.down = MapRemove(st.down, key),
                                   !.released = IF key \in DOMAIN st.down
                                                THEN @ \cup {key} ELSE @]
                           [] OTHER -> st
                    ELSE st
         IN EnhancedEvents(st1, Tail(evs), cycles)

\* a next_loop_enhanced that keeps the sets of the previous refresh
next_loop_enhanced_keep_sets(st, next_events, cycles) ==
    EnhancedEvents(st, next_events, cycles)

\* fn next_loop_enhanced
next_loop_enhanced(st, next_events, cycles) ==
    EnhancedEvents([st EXCEPT !.pressed = {}, !.released = {}], next_events, cycles)

\* the Ctrl-C pattern of InputState::next_loop
IsCtrlC(e) ==
    /\ e.type = "Key"
    /\ e.kind = "Press"
    /\ e.code \in {"c", "C"}
    /\ e.modifiers = CONTROL

Continue == [kind |-> "Continue", code |-> 0]
Exit(code) == [kind |-> "Exit", code |-> code]
NoResult == [kind |-> "None", code |-> 0]

\* a refresh that looks for the interrupt only in the first queued event
input_next_loop_first_only(st, next_events, cycles, enhanced) ==
    IF next_events # <<>> /\ IsCtrlC(next_events[1])
    THEN [st |-> st, result |-> Exit(130)]
    ELSE [st |-> IF enhanced THEN next_loop_enhanced(st, next_events, cycles)
                 ELSE next_loop_fallback(st, next_events, cycles),
          result |-> Continue]

\* impl InputState for CrosstermInputState: fn next_loop
input_next_loop(st, next_events, cycles, enhanced) ==
    IF \E i \in 1..Len(next_events) : IsCtrlC(next_events[i])
    THEN [st |-> st, result |-> Exit(130)]
    ELSE [st |-> IF enhanced THEN next_loop_enhanced(st, next_events, cycles)
                 ELSE next_loop_fallback(st, next_events, cycles),
          result |-> Continue]

\* ---- bounds of the input model ----
MaxQueue == 2
MaxCycles == 2
MaxQuiet == MaxCycles + 1

\* the reserved interrupt combination: a Press of 'c' or 'C' with modifiers CONTROL
ReservedInterrupt(e) ==
    e \in {KeyEvent("Press", "c", {"CONTROL"}), KeyEvent("Press", "C", {"CONTROL"})}

\* the place of the first reserved interrupt of a batch, 0 when it holds none
FirstInterrupt(evs) ==
    LET at == {i \in 1..Len(evs) : ReservedInterrupt(evs[i])}
    IN IF at = {} THEN 0 ELSE CHOOSE i \in at : \A j \in at : i <= j

\* the events of a batch that concern key k
EventsOf(evs, k) ==
    {i \in 1..Len(evs) : evs[i].type = "Key"
                         /\ map_crossterm_keycode_to_pixel_loop(evs[i].code) = k}

\* the history variable of the press / hold / release scenario of a key
QuietNext(k, evs, result) ==
    IF /\ result = Continue
       /\ k \notin DOMAIN keys_down
       /\ Cardinality(EventsOf(evs, k)) = 1
       /\ \A i \in EventsOf(evs, k) : evs[i].kind = "Press"
    THEN 0
    ELSE IF evs = <<>> /\ quiet[k] >= 0
         THEN Min(quiet[k] + 1, MaxQuiet)
         ELSE -1

\* the history variable of the reports of a key: what the refresh that returned
\* result and left state st reported last for key k
ReportNext(k, st, result) ==
    IF result # Continue THEN last_report[k]
    ELSE IF k \in st.pressed /\ k \in st.released
         THEN (IF k \in DOMAIN st.down THEN "pressed" ELSE "released")
         ELSE IF k \in st.pressed THEN "pressed"
         ELSE IF k \in st.released THEN "released"
         ELSE last_report[k]

\* CrosstermInputState::new() with no input subsystem running
InputParked ==
    /\ input_phase = "created"
    /\ event_queue = <<>>
    /\ keys_down = <<>>
    /\ keys_pressed_this_update = {}
    /\ keys_released_this_update = {}
    /\ event_cycles_before_released = 2
    /\ enhanced_keyboard = FALSE
    /\ last_result = NoResult
    /\ last_interrupt = 0
    /\ quiet = [k \in KeyboardKeys |-> -1]
    /\ last_report = [k \in KeyboardKeys |-> "none"]

(***************************************************************************)
(* Color and CrosstermCanvas                                               *)
(***************************************************************************)
\* pub const fn from_rgba(r: u8, b: u8, g: u8, a: u8) -> Self { Self { r, g, b, a } }
from_rgba(r, b, g, a) == [r |-> r, g |-> g, b |-> b, a |-> a]
\* pub const fn from_rgb(r: u8, b: u8, g: u8) -> Self { Self { r, g, b, a: 255 } }
from_rgb(r, b, g) == [r |-> r, g |-> g, b |-> b, a |-> 255]

\* the colors the application draws with
Palette == {from_rgb(0, 0, 0), from_rgb(255, 0, 0)}
\* on canvases of at most MaxClearPixels pixels the application also draws with
\* Color::from_rgba(0, 0, 0, 0)
MaxClearPixels == 4
DrawnColors(w, h) ==
    IF w * h <= MaxClearPixels THEN Palette \cup {from_rgba(0, 0, 0, 0)} ELSE Palette
\* canvas sizes <<width, height>>: even and odd heights, one and several cell rows
CanvasSizes == {<<1, 1>>, <<2, 2>>, <<1, 3>>, <<2, 3>>, <<3, 2>>, <<2, 4>>}

\* vec![color; n]
Fill(color, n) == [i \in 1..n |-> color]

\* Patch::new
PatchNew(x, y) == [position |-> <<x, y>>, data |-> <<>>, previous_colors |-> <<>>]

SetColors(upper, lower) ==
    [op |-> "SetColors", fg |-> <<upper.r, upper.g, upper.b>>,
                         bg |-> <<lower.r, lower.g, lower.b>>]
PrintHalfBlock == [op |-> "Print", fg |-> <<>>, bg |-> <<>>]

\* an add_two_row_pixel that looks at the upper color only
add_two_row_pixel_upper_only(patch, upper, lower) ==
    LET p1 == IF patch.previous_colors = <<>> \/ patch.previous_colors[1][1] # upper
              THEN [patch EXCEPT !.data = Append(@, SetColors(upper, lower)),
                                 !.previous_colors = << <<upper, lower>> >>]
              ELSE patch
    IN [p1 EXCEPT !.data = Append(@, PrintHalfBlock)]

\* Patch::add_two_row_pixel
add_two_row_pixel(patch, upper, lower) ==
    LET p1 == IF patch.previous_colors = <<>> \/ patch.previous_colors[1] # <<upper, lower>>
              THEN [patch EXCEPT !.data = Append(@, SetColors(upper, lower)),
                                 !.previous_colors = << <<upper, lower>> >>]
              ELSE patch
    IN [p1 EXCEPT !.data = Append(@, PrintHalfBlock)]

\* the body of `for x in 0..self.width` for one (x, y); st = [patches, active_patch]
ScanCell(st, x, y, w, h, buf, prev) ==
    LET y1  == buf[y * w + x + 1]
        y2  == IF h % 2 # 0 THEN from_rgb(0, 0, 0) ELSE buf[(y + 1) * w + x + 1]
        py1 == prev[y * w + x + 1]
        py2 == IF h % 2 # 0 THEN from_rgb(0, 0, 0) ELSE prev[(y + 1) * w + x + 1]
    IN IF y1 # py1 \/ y2 # py2
       THEN LET a == IF st.active_patch = <<>> THEN PatchNew(x, y \div 2)
                     ELSE st.active_patch[1]
            IN [st EXCEPT !.active_patch = <<add_two_row_pixel(a, y1, y2)>>]
       ELSE IF st.active_patch # <<>>
            THEN [patches |-> Append(st.patches, st.active_patch[1]), active_patch |-> <<>>]
            ELSE st

\* if active_patch.is_some() { patches.push(active_patch.take().unwrap()); }
FlushPatch(st) ==
    IF st.active_patch # <<>>
    THEN [patches |-> Append(st.patches, st.active_patch[1]), active_patch |-> <<>>]
    ELSE st

RECURSIVE ScanRow(_, _, _, _, _, _, _)
ScanRow(st, x, y, w, h, buf, prev) ==
    IF x >= w THEN FlushPatch(st)
    ELSE ScanRow(ScanCell(st, x, y, w, h, buf, prev), x + 1, y, w, h, buf, prev)

RECURSIVE ScanRows(_, _, _, _, _, _)
\* for y in (0..self.height as usize).step_by(2)
ScanRows(st, y, w, h, buf, prev) ==
    IF y >= h THEN FlushPatch(st)
    ELSE ScanRows(ScanRow(st, 0, y, w, h, buf, prev), y + 2, w, h, buf, prev)

\* CrosstermCanvas::calculate_patches
calculate_patches(w, h, buf, prev) ==
    ScanRows([patches |-> <<>>, active_patch |-> <<>>], 0, w, h, buf, prev).patches

\* the colors handed to add_two_row_pixel
PatchColors == {from_rgb(0, 0, 0), from_rgb(255, 0, 0), from_rgb(0, 255, 0)}
MaxCells == 3
\* no patch under construction
PatchParked ==
    /\ row_patch = PatchNew(0, 0)
    /\ row_cells = <<>>

\* a render that forgets to take the new baseline
copy_from_slice_skipped(dst, src) == dst
\* a copy that stops one element short
copy_from_slice_short(dst, src) ==
    [i \in 1..Len(src) |-> IF i < Len(src) THEN src[i] ELSE dst[i]]

\* self.previous_buffer.copy_from_slice(&self.buffer)
copy_from_slice(dst, src) == src

\* no terminal canvas
CanvasParked ==
    /\ width = 0
    /\ height = 0
    /\ buffer = <<>>
    /\ previous_buffer = <<>>
    /\ patches = <<>>
    /\ render_result = "None"
    /\ clean = FALSE
    /\ fresh = FALSE

(***************************************************************************)
(* The Canvas trait (canvas/mod.rs) over an InMemoryCanvas                 *)
(* (canvas/in_memory.rs).  Option values are sequences: << >> is None and  *)
(* <<v>> is Some(v).  A Range a..b of the code is the pair a, b; index i   *)
(* of a Vec is index i + 1 of the sequence.                                *)
(***************************************************************************)
\* u32::MAX = 4294967295 does not fit the model checker's 32-bit integers; it is
\* represented by their largest value and only compared with lengths below 10
u32_MAX == 2147483647
\* `v as u32` of an i64: the value modulo 2^32
as_u32(v) == IF v >= 0 THEN v ELSE u32_MAX + v + 1

\* InMemoryCanvas::new(width, height, color)
InMemoryCanvas(w, h, color) == [buffer |-> Fill(color, w * h), width |-> w, height |-> h]

\* &self.buffer[range]: panics unless a <= b <= len
get_range(cv, a, b) ==
    IF a <= b /\ b <= Len(cv.buffer)
    THEN [panicked |-> FALSE, row |-> SubSeq(cv.buffer, a + 1, b)]
    ELSE [panicked |-> TRUE, row |-> <<>>]

\* self.buffer[range].copy_from_slice(color): the slicing panics unless
\* a <= b <= len, copy_from_slice panics unless the lengths are equal
set_range(cv, a, b, color) ==
    IF a <= b /\ b <= Len(cv.buffer) /\ Len(color) = b - a
    THEN [panicked |-> FALSE,
          cv |-> [cv EXCEPT !.buffer =
                     [i \in 1..Len(cv.buffer) |->
                        IF a < i /\ i <= b THEN color[i - a] ELSE cv.buffer[i]]]]
    ELSE [panicked |-> TRUE, cv |-> cv]

\* fn get: the pixel at row-major index y * width + x; << >> when the slice panics
get(cv, x, y) ==
    LET i == y * cv.width + x
        r == get_range(cv, i, i + 1)
    IN IF r.panicked THEN <<>> ELSE <<r.row[1]>>

\* fn set: set_range(i..i + 1, from_ref(color)) at i = y * width + x
set(cv, x, y, color) ==
    LET i == y * cv.width + x
    IN set_range(cv, i, i + 1, <<color>>)

\* a maybe_get that takes column 0 for out of view
maybe_get_no_first_column(cv, x, y) ==
    IF x <= 0 \/ y < 0 \/ x >= cv.width \/ y >= cv.height
    THEN <<>>
    ELSE get(cv, as_u32(x), as_u32(y))

\* fn maybe_get
maybe_get(cv, x, y) ==
    IF x < 0 \/ y < 0 \/ x >= cv.width \/ y >= cv.height
    THEN <<>>
    ELSE get(cv, as_u32(x), as_u32(y))

\* fn is_empty_or_color: self.maybe_get(x, y).map(|c| c == color).unwrap_or(true)
is_empty_or_color(cv, x, y, color) ==
    LET m == maybe_get(cv, x, y)
    IN IF m = <<>> THEN TRUE ELSE m[1] = color

\* fn clip_rect, with norm_width and norm_height as the i64 values they have
\* before the `as u32` casts of the returned tuple
clip_rect(cv, x, y, w, h) ==
    IF x < -w \/ y < -h \/ x >= cv.width \/ y >= cv.height
    THEN <<>>
    ELSE LET norm_x == Max(0, x)
             norm_y == Max(0, y)
             norm_width == Min(w - (norm_x - x), cv.width - norm_x - 1)
             norm_height == Min(h - (norm_y - y), cv.height - norm_y - 1)
         IN << <<norm_x, norm_y, norm_width, norm_height>> >>

\* the outcome of a drawing method: the canvas after it, whether it panicked,
\* and the ranges it handed to set_range, in order
Drawn(cv, panicked, ranges) == [cv |-> cv, panicked |-> panicked, ranges |-> ranges]

\* vec![color.clone(); width as usize]; a row longer than the buffer is kept
\* one longer than the buffer only: set_range panics on its range in any case
ColorRow(cv, color, w) == Fill(color, Min(w, Len(cv.buffer) + 1))

RECURSIVE FillRows(_, _, _, _, _, _)
\* for y in sy..sy + height { self.set_range(y * width + sx .. y * width + sx + width, row) }
FillRows(d, y, y_end, sx, w, color_row) ==
    IF y >= y_end THEN d
    ELSE LET a == y * d.cv.width + sx
             b == y * d.cv.width + sx + w
             r == set_range(d.cv, a, b, color_row)
             ranges == Append(d.ranges, <<a, b>>)
         IN IF r.panicked
            THEN Drawn(d.cv, TRUE, ranges)
            ELSE FillRows(Drawn(r.cv, FALSE, ranges), y + 1, y_end, sx, w, color_row)

\* fn filled_rect; alloc_ok = FALSE: the allocation of a row of u32::MAX
\* colors (16 GiB) aborts the process
filled_rect(cv, sx, sy, w, h, color, alloc_ok) ==
    LET c == clip_rect(cv, sx, sy, w, h)
    IN IF c = <<>> THEN Drawn(cv, FALSE, <<>>)
       ELSE LET nx == as_u32(c[1][1])
                ny == as_u32(c[1][2])
                nw == as_u32(c[1][3])
                nh == as_u32(c[1][4])
            IN IF nw = u32_MAX /\ ~alloc_ok
               THEN Drawn(cv, TRUE, <<>>)
               ELSE FillRows(Drawn(cv, FALSE, <<>>), ny, ny + nh, nx, nw,
                             ColorRow(cv, color, nw))

\* fn clear_screen
clear_screen(cv, color) == filled_rect(cv, 0, 0, cv.width, cv.height, color, TRUE)

\* the closure of blit_rect: Color::from_rgb(c.r * tint.r / 255, c.g * tint.g / 255,
\* c.b * tint.b / 255), the arguments in that order
TintColor(c, tint) ==
    from_rgb((c.r * tint.r) \div 255, (c.g * tint.g) \div 255, (c.b * tint.b) \div 255)

RECURSIVE BlitRows(_, _, _, _, _, _, _, _)
\* for y in 0..norm_height of blit_rect; n is the clipped tuple after its casts
BlitRows(d, y, src_canvas, src_x, src_y, w, n, tint) ==
    IF y >= n[4] THEN d
    ELSE LET src_start == (src_y + y) * src_canvas.width + src_x
             src_end   == src_start + Min(w, n[3])
             dst_start == (n[2] + y) * d.cv.width + n[1]
             dst_end   == dst_start + n[3]
             row       == get_range(src_canvas, src_start, src_end)
             colors    == IF tint = <<>> THEN row.row
                          ELSE [i \in 1..Len(row.row) |-> TintColor(row.row[i], tint[1])]
             r         == set_range(d.cv, dst_start, dst_end, colors)
             ranges    == Append(d.ranges, <<dst_start, dst_end>>)
         IN IF row.panicked THEN Drawn(d.cv, TRUE, d.ranges)
            ELSE IF r.panicked THEN Drawn(d.cv, TRUE, ranges)
            ELSE BlitRows(Drawn(r.cv, FALSE, ranges), y + 1, src_canvas, src_x, src_y,
                          w, n, tint)

\* fn blit_rect; tint is << >> (None) or <<color>>
blit_rect(cv, src_canvas, src_x, src_y, w, h, dst_x, dst_y, tint) ==
    LET c == clip_rect(cv, dst_x, dst_y, w, h)
    IN IF c = <<>> THEN Drawn(cv, FALSE, <<>>)
       ELSE BlitRows(Drawn(cv, FALSE, <<>>), 0, src_canvas, src_x, src_y, w,
                     <<as_u32(c[1][1]), as_u32(c[1][2]), as_u32(c[1][3]), as_u32(c[1][4])>>,
                     tint)

\* fn blit
blit(cv, src_canvas, dst_x, dst_y, tint) ==
    blit_rect(cv, src_canvas, 0, 0, src_canvas.width, src_canvas.height, dst_x, dst_y, tint)

\* ---- bounds and input sets of the Canvas methods ----
MaxExtent == 3
\* signed origins, from left of every rectangle to right of every canvas
DrawCoords == (0 - MaxExtent)..MaxExtent
DrawExtents == 0..MaxExtent
\* <<width, height>> of the canvases drawn on, empty ones included
DrawSizes == {<<0, 1>>, <<2, 0>>, <<1, 1>>, <<2, 2>>, <<3, 2>>}
\* background and fill colors: opaque red and a color whose channels all differ
DrawColors == {from_rgb(255, 0, 0), from_rgba(10, 30, 20, 40)}
\* None, white and a tint whose channels all differ
DrawTints == {<<>>, <<from_rgb(255, 255, 255)>>, <<from_rgb(255, 0, 128)>>}
\* source canvases of blit: every pixel differs from every other in every channel
DrawSources ==
    { [buffer |-> <<from_rgba(200, 100, 50, 25)>>, width |-> 1, height |-> 1],
      [buffer |-> <<from_rgba(1, 3, 2, 4), from_rgba(255, 0, 255, 0)>>,
       width |-> 2, height |-> 1],
      [buffer |-> <<from_rgba(1, 3, 2, 4), from_rgba(255, 0, 255, 0),
                    from_rgba(5, 7, 6, 8), from_rgba(200, 100, 50, 25)>>,
       width |-> 2, height |-> 2] }
\* u8 channel values handed to the Color constructors
Channels == {0, 128, 255}
\* destination origins of blit_rect
BlitCoordsX == (0 - 2)..MaxExtent
BlitCoordsY == (0 - 1)..1

\* no Canvas method called yet
NoCall ==
    [op |-> "none", x |-> 0, y |-> 0, w |-> 0, h |-> 0, color |-> <<>>, tint |-> <<>>,
     src |-> <<>>, src_x |-> 0, src_y |-> 0, before |-> <<>>, result |-> <<>>,
     panicked |-> FALSE, ranges |-> <<>>, args |-> <<>>]

\* no in-memory canvas
DrawParked ==
    /\ in_memory = [buffer |-> <<>>, width |-> 0, height |-> 0]
    /\ call = NoCall

(***************************************************************************)
(* Frame pacing of CrosstermCanvas: wait_for_next_frame.  Instants and     *)
(* durations are whole nanoseconds; the clock starts at 0 in new_with_size *)
(* and Instant is monotonic.                                               *)
(***************************************************************************)
\* let minimum_thread_sleep_nanos = 4_000_000;
minimum_thread_sleep_nanos == 4000000

\* with_refresh_limit: self.frame_limit_nanos = 1_000_000_000u64 / limit as u64
with_refresh_limit(limit) == NanosPerSec \div limit

\* the limits a canvas is built with: 60 is the default of new_with_size
RefreshLimits == {30, 60, 125}

\* elapsed_since_last_frame: last_frame_time.elapsed().as_nanos() as a u64.
\* The conversion falls back to frame_limit_nanos only from 2^64 ns on,
\* centuries beyond any instant of the bounded clock.
elapsed_since_last_frame(instant, last) == instant - last

\* wait_half_using_thread_sleep: the duration handed to std::thread::sleep,
\* << >> when it does not sleep
wait_half_using_thread_sleep(elapsed_nanos, limit_nanos) ==
    IF /\ elapsed_nanos < limit_nanos
       /\ (limit_nanos - elapsed_nanos) \div 2 > minimum_thread_sleep_nanos
    THEN <<(limit_nanos - elapsed_nanos) \div 2>>
    ELSE <<>>

\* a second phase that never spins
wait_using_spinlock_skipped(elapsed_nanos, limit_nanos) == <<>>

\* wait_using_spinlock: wait_time, << >> when it does not spin
wait_using_spinlock(elapsed_nanos, limit_nanos) ==
    IF elapsed_nanos < limit_nanos
    THEN <<limit_nanos - elapsed_nanos>>
    ELSE <<>>

MaxFrames == 3
\* time spent outside wait_for_next_frame between two calls of it
FrameGaps == {0, 1000000, 8000000, 8666665, 20000000, 40000000}
\* how much longer than asked std::thread::sleep sleeps
Oversleeps == {0, 3000000, 30000000}
\* time passing between two consecutive readings of the clock
ClockLags == {0, 500}

NoWait == [elapsed |-> 0, slept |-> <<>>, spun |-> <<>>, previous |-> 0, done |-> FALSE]

FrameParked ==
    /\ frame_limit_nanos = 0
    /\ last_frame_time = 0
    /\ now = 0
    /\ frame_wait = NoWait
    /\ frames = 0

(***************************************************************************)
(* The driving loops: CrosstermCanvas::run and PixelsCanvas::run.          *)
(* PixelLoop::begin, PixelLoop::finish and the PixelLoop::next_loop that   *)
(* refreshes the input state per tick are not part of the sources at hand; *)
(* they follow the design document (sections 4.2, 4.3 and 5).              *)
(***************************************************************************)
Err == [kind |-> "Err", code |-> 0]

\* what the update callback does in one iteration: its at-th invocation
\* returns res, every other one Ok(Continue); at = 0: all return Ok(Continue)
UpdateOutcomes ==
    {[at |-> 0, res |-> Continue]}
    \cup [at : {1, 2}, res : {Err, Exit(3)}]
RenderOutcomes == {Continue, Err, Exit(0)}

RECURSIVE RunDrain(_, _)
\* while accumulator > tick: the input refresh, then update; an Exit or Err ends next_loop
RunDrain(c, env) ==
    IF c.acc > env.tick
    THEN LET r  == IF env.backend = "crossterm"
                   THEN input_next_loop(c.ist, c.queue, env.cycles, env.enhanced)
                   ELSE [st |-> c.ist, result |-> Continue]
             c1 == [c EXCEPT !.ist = r.st, !.queue = <<>>, !.log = Append(@, "refresh")]
         IN IF r.result.kind = "Exit"
            THEN [c1 EXCEPT !.result = r.result]
            ELSE LET n   == CountOf(c.log, "update") + 1
                     res == IF env.upd.at = n THEN env.upd.res ELSE Continue
                     c2  == [c1 EXCEPT !.log = Append(@, "update")]
                 IN IF res # Continue
                    THEN [c2 EXCEPT !.result = res]
                    ELSE RunDrain([c2 EXCEPT !.acc = @ - env.tick], env)
    ELSE c

\* PixelLoop::next_loop of the driving loops
run_next_loop(acc, ist, queue, dt, env, render_res) ==
    LET d == RunDrain([acc |-> acc, ist |-> ist, queue |-> queue, log |-> <<>>,
                       result |-> Continue], env)
    IN IF d.result # Continue THEN d
       ELSE LET d1 == [d EXCEPT !.log = Append(@, "render")]
            IN IF render_res # Continue
               THEN [d1 EXCEPT !.result = render_res]
               ELSE [d1 EXCEPT !.acc = @ + dt]

\* impl InputState for CrosstermInputState: fn finish; io_ok = FALSE: the
\* PopKeyboardEnhancementFlags or the disable_raw_mode fails
input_finish(enhanced, raw, io_ok) ==
    IF enhanced /\ ~io_ok
    THEN [enhanced_keyboard |-> enhanced, raw_mode |-> raw, ok |-> FALSE]
    ELSE IF ~io_ok
         THEN [enhanced_keyboard |-> FALSE, raw_mode |-> raw, ok |-> FALSE]
         ELSE [enhanced_keyboard |-> FALSE, raw_mode |-> FALSE, ok |-> TRUE]

\* a driving loop that always finishes with status 0
finish_args_zero(next) == IF next.kind = "Exit" THEN <<0>> ELSE <<>>

\* if let NextLoopState::Exit(code) = next { pixel_loop.finish(code) }: the
\* arguments of the finish call made for a next_loop result, if any
finish_args(next) == IF next.kind = "Exit" THEN <<next.code>> ELSE <<>>

\* no iteration of CrosstermCanvas::run made yet
NoPoll == [polled |-> FALSE, pending |-> <<>>, batch |-> <<>>, log |-> <<>>, reported |-> <<>>]

\* the terminal size <<columns, rows>> of the latest Event::Resize delivered so far
LastReported(before, batch) ==
    LET at == {i \in 1..Len(batch) : batch[i].type = "Resize"}
    IN IF at = {} THEN before
       ELSE LET i == CHOOSE i \in at : \A j \in at : j <= i
            IN << <<batch[i].columns, batch[i].rows>> >>

RECURSIVE ResizeFirst(_, _)
\* an event loop that resizes for the first Event::Resize of a batch only
ResizeFirst(size, batch) ==
    IF batch = <<>> THEN size
    ELSE ResizeFirst(IF Head(batch).type = "Resize" /\ size = <<>>
                     THEN << <<Head(batch).columns, Head(batch).rows * 2>> >>
                     ELSE size,
                     Tail(batch))

RECURSIVE ResizeAll(_, _)
\* the Event::Resize arm of the event loop, over a polled batch: the size after it
ResizeAll(size, batch) ==
    IF batch = <<>> THEN size
    ELSE ResizeAll(IF Head(batch).type = "Resize"
                   THEN << <<Head(batch).columns, Head(batch).rows * 2>> >>
                   ELSE size,
                   Tail(batch))

\* ---- bounds and input sets of the driving loops ----
MaxRunIter == 3
MaxPoll == 2
RunUpdateFps == 60
RunEvents ==
    { KeyEvent("Press", "a", NoModifiers),
      KeyEvent("Press", "c", CONTROL),
      ResizeEvent(1, 1),
      ResizeEvent(2, 1) }
RunDeltas == {<<0, 10000000>>, <<0, 100000000>>}
RunBatches == {<<>>} \cup UNION {[1..n -> RunEvents] : n \in 1..MaxPoll}

\* ---- bounds and input sets of the scheduler ----
MaxIter == 4
MaxFailAt == 2
UpdateRates == {0, 10, 60, 120}
\* update rates above 2 * 10^9 per second (update_fps is a usize)
HighRates == {2000000001, 2147483647}
\* measured wall-clock deltas: 4 ms, one 120 Hz tick, 16.67 ms, 100 ms, a 5 s stall
Deltas == {<<0, 4000000>>, <<0, 8333333>>, <<0, 16666667>>, <<0, 100000000>>, <<5, 0>>}

\* no driving loop running
RunParked ==
    /\ backend = "none"
    /\ run_pc = "created"
    /\ raw_mode = FALSE
    /\ last_loop_width = 0
    /\ last_loop_height = 0
    /\ exit_code = 0
    /\ panic_cause = "none"
    /\ finish_codes = <<>>
    /\ exit_result = <<>>
    /\ calls_after_exit = 0
    /\ run_iter = 0
    /\ last_poll = NoPoll

\* no scheduler running
LoopParked ==
    /\ update_fps = 0
    /\ loop_status = "panicked"
    /\ update_timestep = 0
    /\ accumulator = 0
    /\ hist = <<>>

\* a constructor without the check of the rate
PixelLoopNewUnchecked(fps) == "running"

\* PixelLoop::new: if update_fps == 0 { panic!(..) }
PixelLoopNew(fps) == IF fps = 0 THEN "panicked" ELSE "running"

\* PixelLoop::new
LoopInit ==
    /\ update_fps \in UpdateRates
    /\ loop_status = PixelLoopNew(update_fps)
    /\ update_timestep = IF update_fps = 0 THEN 0 ELSE TimestepNanos(update_fps)
    /\ accumulator = 0
    /\ hist = <<>>
    /\ InputParked
    /\ CanvasParked
    /\ RunParked
    /\ DrawParked
    /\ FrameParked
    /\ PatchParked

\* one iteration of run(): pixel_loop.next_loop()?
NextLoop ==
    /\ loop_status = "running"
    /\ Len(hist) < MaxIter
    /\ \E raw \in Deltas, fail_at \in 0..MaxFailAt, render_ok \in BOOLEAN :
         IF update_timestep = 0 /\ accumulator > 0 /\ fail_at = 0
         THEN \* accumulator -= 0 in a drain loop whose update never fails:
              \* the condition of the while stays true and next_loop never returns
              /\ loop_status' = "hung"
              /\ UNCHANGED <<accumulator, hist>>
         ELSE LET dt == ClampDt(raw)
                  r  == next_loop(accumulator, update_timestep, dt, fail_at, render_ok)
              IN /\ accumulator' = r.accumulator
                 /\ hist' = Append(hist, [raw |-> raw, dt |-> dt, calls |-> r.calls,
                                          fail_at |-> fail_at,
                                          updates |-> CountOf(r.calls, "update"),
                                          result |-> r.result])
                 /\ loop_status' = IF r.result = "Ok" THEN "running" ELSE "failed"
    /\ UNCHANGED <<update_fps, update_timestep, input_vars, canvas_vars, run_vars>>
    /\ UNCHANGED <<draw_vars, frame_vars, patch_vars>>

SpecLoop == LoopInit /\ [][NextLoop]_vars

\* PixelLoop::new(update_fps, ..) over the rates of UpdateRates and over rates
\* beyond 2 * 10^9 updates per second
LoopInitAnyRate ==
    /\ update_fps \in UpdateRates \cup HighRates
    /\ loop_status = PixelLoopNew(update_fps)
    /\ update_timestep = IF update_fps = 0 THEN 0 ELSE TimestepNanos(update_fps)
    /\ accumulator = 0
    /\ hist = <<>>
    /\ InputParked
    /\ CanvasParked
    /\ RunParked
    /\ DrawParked
    /\ FrameParked
    /\ PatchParked

SpecLoopAnyRate == LoopInitAnyRate /\ [][NextLoop]_vars

\* CrosstermInputState::new().with_event_cycles_before_released(cycles)
InputInit ==
    /\ input_phase = "created"
    /\ event_queue = <<>>
    /\ keys_down = <<>>
    /\ keys_pressed_this_update = {}
    /\ keys_released_this_update = {}
    /\ event_cycles_before_released \in 0..MaxCycles
    /\ enhanced_keyboard = FALSE
    /\ last_result = NoResult
    /\ last_interrupt = 0
    /\ quiet = [k \in KeyboardKeys |-> -1]
    /\ last_report = [k \in KeyboardKeys |-> "none"]
    /\ LoopParked
    /\ CanvasParked
    /\ RunParked
    /\ DrawParked
    /\ FrameParked
    /\ PatchParked

\* InputState::begin: the capability probe decides the mode
InputBegin ==
    /\ input_phase = "created"
    /\ input_phase' = "begun"
    /\ enhanced_keyboard' \in BOOLEAN
    /\ UNCHANGED <<event_queue, keys_down, keys_pressed_this_update,
                   keys_released_this_update, event_cycles_before_released,
                   last_result, last_interrupt, quiet, last_report, loop_vars, canvas_vars, run_vars>>
    /\ UNCHANGED <<draw_vars, frame_vars, patch_vars>>

\* CrosstermInputState::handle_new_event
HandleNewEvent ==
    /\ input_phase = "begun"
    /\ Len(event_queue) < MaxQueue
    /\ \E e \in Events : event_queue' = Append(event_queue, e)
    /\ UNCHANGED <<input_phase, keys_down, keys_pressed_this_update,
                   keys_released_this_update, event_cycles_before_released,
                   enhanced_keyboard, last_result, last_interrupt, quiet, last_report, loop_vars, canvas_vars, run_vars>>
    /\ UNCHANGED <<draw_vars, frame_vars, patch_vars>>

\* InputState::next_loop: take_all_queued_events, then the refresh
InputNextLoop ==
    /\ input_phase = "begun"
    /\ LET st == [down |-> keys_down, pressed |-> keys_pressed_this_update,
                  released |-> keys_released_this_update]
           r  == input_next_loop(st, event_queue, event_cycles_before_released,
                                 enhanced_keyboard)
       IN /\ keys_down' = r.st.down
          /\ keys_pressed_this_update' = r.st.pressed
          /\ keys_released_this_update' = r.st.released
          /\ last_result' = r.result
          /\ quiet' = [k \in KeyboardKeys |-> QuietNext(k, event_queue, r.result)]
          /\ last_report' = [k \in KeyboardKeys |-> ReportNext(k, r.st, r.result)]
    /\ last_interrupt' = FirstInterrupt(event_queue)
    /\ event_queue' = <<>>
    /\ UNCHANGED <<input_phase, event_cycles_before_released, enhanced_keyboard,
                   loop_vars, canvas_vars, run_vars>>
    /\ UNCHANGED <<draw_vars, frame_vars, patch_vars>>

InputNext == InputBegin \/ HandleNewEvent \/ InputNextLoop

SpecInput == InputInit /\ [][InputNext]_vars

\* KeyboardState for CrosstermInputState
is_key_pressed(key) == key \in keys_pressed_this_update
is_key_down(key) == key \in DOMAIN keys_down
is_key_released(key) == key \in keys_released_this_update
is_key_up(key) == key \notin DOMAIN keys_down

\* CrosstermCanvas::resize_surface
\* a resize that reallocates the current buffer only
resize_surface_buffer_only(w, h) ==
    /\ width' = w
    /\ height' = h
    /\ buffer' = Fill(from_rgb(0, 0, 0), w * h)
    /\ previous_buffer' = previous_buffer

\* fn resize_surface
resize_surface(w, h) ==
    /\ width' = w
    /\ height' = h
    /\ buffer' = Fill(from_rgb(0, 0, 0), w * h)
    /\ previous_buffer' = Fill(from_rgba(0, 0, 0, 0), w * h)

\* CrosstermCanvas::new_with_size
CanvasInit ==
    /\ \E size \in CanvasSizes :
         /\ width = size[1]
         /\ height = size[2]
         /\ buffer = Fill(from_rgb(0, 0, 0), size[1] * size[2])
         /\ previous_buffer = Fill(from_rgba(0, 0, 0, 0), size[1] * size[2])
    /\ patches = <<>>
    /\ render_result = "None"
    /\ clean = FALSE
    /\ fresh = TRUE
    /\ LoopParked
    /\ InputParked
    /\ RunParked
    /\ DrawParked
    /\ FrameParked
    /\ PatchParked

\* Canvas::set on an in-range pixel: set_range(i..i + 1, color)
CanvasSet ==
    /\ \E x \in 0..width - 1, y \in 0..height - 1, color \in DrawnColors(width, height) :
         buffer' = [buffer EXCEPT ![y * width + x + 1] = color]
    /\ clean' = FALSE
    /\ fresh' = fresh
    /\ patches' = <<>>
    /\ UNCHANGED <<width, height, previous_buffer, render_result,
                   loop_vars, input_vars, run_vars>>
    /\ UNCHANGED <<draw_vars, frame_vars, patch_vars>>

\* RenderableCanvas::render; io_ok = FALSE: writing the frame to stdout fails
CanvasRender ==
    /\ \E io_ok \in BOOLEAN :
         /\ patches' = calculate_patches(width, height, buffer, previous_buffer)
         /\ IF io_ok
            THEN /\ previous_buffer' = copy_from_slice(previous_buffer, buffer)
                 /\ render_result' = "Ok"
                 /\ clean' = TRUE
                 /\ fresh' = FALSE
            ELSE /\ render_result' = "Err"
                 /\ UNCHANGED <<previous_buffer, clean, fresh>>
    /\ UNCHANGED <<width, height, buffer, loop_vars, input_vars, run_vars>>
    /\ UNCHANGED <<draw_vars, frame_vars, patch_vars>>

\* a terminal resize: resize_surface(columns, rows * 2)
CanvasResize ==
    /\ \E size \in CanvasSizes : resize_surface(size[1], size[2])
    /\ clean' = FALSE
    /\ fresh' = TRUE
    /\ patches' = <<>>
    /\ UNCHANGED <<render_result, loop_vars, input_vars, run_vars>>
    /\ UNCHANGED <<draw_vars, frame_vars, patch_vars>>

CanvasNext == CanvasSet \/ CanvasRender \/ CanvasResize

SpecCanvas == CanvasInit /\ [][CanvasNext]_vars

\* pixel_loop::run(60, state, input, canvas, update, render), before begin
RunInit ==
    /\ backend \in {"crossterm", "pixels"}
    /\ run_pc = "created"
    /\ raw_mode = FALSE
    /\ last_loop_width = 0
    /\ last_loop_height = 0
    /\ exit_code = 0
    /\ panic_cause = "none"
    /\ finish_codes = <<>>
    /\ exit_result = <<>>
    /\ calls_after_exit = 0
    /\ run_iter = 0
    /\ last_poll = NoPoll
    /\ update_fps = RunUpdateFps
    /\ loop_status = "running"
    /\ update_timestep = TimestepNanos(RunUpdateFps)
    /\ accumulator = 0
    /\ hist = <<>>
    /\ InputParked
    /\ width = 2
    /\ height = 2
    /\ buffer = Fill(from_rgb(0, 0, 0), 4)
    /\ previous_buffer = Fill(from_rgba(0, 0, 0, 0), 4)
    /\ patches = <<>>
    /\ render_result = "None"
    /\ clean = FALSE
    /\ fresh = TRUE
    /\ DrawParked
    /\ FrameParked
    /\ PatchParked

\* pixel_loop.begin().expect(..): input_state.begin() and canvas.begin()
RunBegin ==
    /\ run_pc = "created"
    /\ \E begin_ok \in BOOLEAN :
         IF begin_ok
         THEN /\ run_pc' = "running"
              /\ input_phase' = "begun"
              /\ raw_mode' = (backend = "crossterm")
              /\ enhanced_keyboard' \in (IF backend = "crossterm" THEN BOOLEAN ELSE {FALSE})
              /\ UNCHANGED panic_cause
         ELSE /\ run_pc' = "panicked"
              /\ panic_cause' = "begin"
              /\ raw_mode' \in (IF backend = "crossterm" THEN BOOLEAN ELSE {FALSE})
              /\ UNCHANGED <<input_phase, enhanced_keyboard>>
    /\ UNCHANGED <<backend, last_loop_width, last_loop_height, exit_code, finish_codes,
                   exit_result, calls_after_exit, run_iter, last_poll, loop_vars, canvas_vars,
                   event_queue, keys_down, keys_pressed_this_update,
                   keys_released_this_update, event_cycles_before_released,
                   last_result, last_interrupt, quiet, last_report>>
    /\ UNCHANGED <<draw_vars, frame_vars, patch_vars>>

\* PixelLoop::finish(code).expect(..): the input backend's finish, the canvas'
\* finish, then the process terminates with status code
RunFinish(code, finish_ok) ==
    LET f == input_finish(enhanced_keyboard, raw_mode, finish_ok)
    IN /\ finish_codes' = Append(finish_codes, code)
       /\ enhanced_keyboard' = f.enhanced_keyboard
       /\ raw_mode' = f.raw_mode
       /\ run_pc' = IF f.ok THEN "terminated" ELSE "panicked"
       /\ panic_cause' = IF f.ok THEN panic_cause ELSE "finish"
       /\ exit_code' = code

\* the next_loop call of a driving loop and the bookkeeping of its result
RunNextLoop(queue, r) ==
    /\ accumulator' = r.acc
    /\ keys_down' = r.ist.down
    /\ keys_pressed_this_update' = r.ist.pressed
    /\ keys_released_this_update' = r.ist.released
    /\ event_queue' = r.queue
    /\ exit_result' = IF exit_result = <<>> /\ r.result.kind = "Exit"
                      THEN <<r.result.code>> ELSE exit_result
    /\ calls_after_exit' = IF exit_result # <<>>
                           THEN calls_after_exit + CountOf(r.log, "update")
                                + CountOf(r.log, "render")
                           ELSE calls_after_exit
    /\ run_iter' = run_iter + 1

RunEnv(upd) ==
    [tick |-> update_timestep, cycles |-> event_cycles_before_released,
     enhanced |-> enhanced_keyboard, backend |-> backend, upd |-> upd]
RunInputState ==
    [down |-> keys_down, pressed |-> keys_pressed_this_update,
     released |-> keys_released_this_update]

\* one iteration of the loop of CrosstermCanvas::run
CrosstermRunIterate ==
    /\ backend = "crossterm"
    /\ run_pc = "running"
    /\ run_iter < MaxRunIter
    /\ \E poll_ok \in BOOLEAN, batch \in RunBatches, raw \in RunDeltas,
          upd \in UpdateOutcomes, render_res \in RenderOutcomes, finish_ok \in BOOLEAN :
         /\ Len(event_queue) + Len(batch) <= MaxQueue
         /\ IF ~poll_ok
            THEN /\ run_pc' = "panicked"
                 /\ panic_cause' = "poll"
                 /\ UNCHANGED <<raw_mode, last_loop_width, last_loop_height, exit_code,
                                finish_codes, exit_result, calls_after_exit, run_iter, last_poll,
                                accumulator, canvas_vars, event_queue, keys_down,
                                keys_pressed_this_update, keys_released_this_update,
                                enhanced_keyboard>>
            ELSE LET size  == ResizeAll(<<>>, batch)
                     queue == event_queue \o batch
                     r     == run_next_loop(accumulator, RunInputState, queue,
                                            ClampDt(raw), RunEnv(upd), render_res)
                     fin   == finish_args(r.result)
                 IN /\ IF size # <<>>
                       THEN /\ resize_surface(size[1][1], size[1][2])
                            /\ clean' = FALSE
                            /\ fresh' = TRUE
                            /\ patches' = <<>>
                            /\ UNCHANGED render_result
                       ELSE UNCHANGED canvas_vars
                    /\ RunNextLoop(queue, r)
                    /\ last_poll' = [polled |-> TRUE, pending |-> event_queue,
                                     batch |-> batch, log |-> r.log,
                                     reported |-> LastReported(last_poll.reported, batch)]
                    /\ IF r.result = Err
                       THEN /\ run_pc' = "panicked"
                            /\ panic_cause' = "next_loop"
                            /\ UNCHANGED <<raw_mode, last_loop_width, last_loop_height,
                                           exit_code, finish_codes, enhanced_keyboard>>
                       ELSE IF fin # <<>>
                            THEN /\ RunFinish(fin[1], finish_ok)
                                 /\ UNCHANGED <<last_loop_width, last_loop_height>>
                            ELSE /\ last_loop_width' = width'
                                 /\ last_loop_height' = height'
                                 /\ UNCHANGED <<run_pc, panic_cause, raw_mode, exit_code,
                                                finish_codes, enhanced_keyboard>>
    /\ UNCHANGED <<backend, loop_status, update_fps, update_timestep, hist, input_phase,
                   event_cycles_before_released, last_result, last_interrupt, quiet, last_report>>
    /\ UNCHANGED <<draw_vars, frame_vars, patch_vars>>

\* Event::MainEventsCleared of PixelsCanvas::run
PixelsMainEventsCleared ==
    /\ backend = "pixels"
    /\ run_pc = "running"
    /\ run_iter < MaxRunIter
    /\ \E raw \in RunDeltas, upd \in UpdateOutcomes, render_res \in RenderOutcomes :
         LET r == run_next_loop(accumulator, RunInputState, event_queue,
                                ClampDt(raw), RunEnv(upd), render_res)
         IN /\ RunNextLoop(event_queue, r)
            /\ UNCHANGED last_poll
            /\ IF r.result = Err
               THEN /\ run_pc' = "panicked"
                    /\ panic_cause' = "next_loop"
                    /\ UNCHANGED <<exit_code, last_loop_width, last_loop_height>>
               ELSE IF r.result.kind = "Exit"
                    THEN /\ exit_code' = r.result.code
                         /\ run_pc' = "exit_pending"
                         /\ UNCHANGED <<panic_cause, last_loop_width, last_loop_height>>
                    ELSE /\ last_loop_width' = width
                         /\ last_loop_height' = height
                         /\ UNCHANGED <<run_pc, panic_cause, exit_code>>
    /\ UNCHANGED <<backend, raw_mode, finish_codes, enhanced_keyboard, canvas_vars,
                   loop_status, update_fps, update_timestep, hist, input_phase,
                   event_cycles_before_released, last_result, last_interrupt, quiet, last_report>>
    /\ UNCHANGED <<draw_vars, frame_vars, patch_vars>>

\* WindowEvent::CloseRequested of PixelsCanvas::run
PixelsCloseRequested ==
    /\ backend = "pixels"
    /\ run_pc = "running"
    /\ exit_code' = 0
    /\ run_pc' = "exit_pending"
    /\ UNCHANGED <<backend, raw_mode, last_loop_width, last_loop_height, panic_cause,
                   finish_codes, exit_result, calls_after_exit, run_iter, last_poll,
                   loop_vars, input_vars, canvas_vars>>
    /\ UNCHANGED <<draw_vars, frame_vars, patch_vars>>

\* Event::LoopDestroyed of PixelsCanvas::run: finish(exit_code).unwrap()
PixelsLoopDestroyed ==
    /\ backend = "pixels"
    /\ run_pc = "exit_pending"
    /\ \E finish_ok \in BOOLEAN : RunFinish(exit_code, finish_ok)
    /\ UNCHANGED <<backend, last_loop_width, last_loop_height, exit_result,
                   calls_after_exit, run_iter, last_poll, loop_vars, canvas_vars,
                   input_phase, event_queue, keys_down, keys_pressed_this_update,
                   keys_released_this_update, event_cycles_before_released,
                   last_result, last_interrupt, quiet, last_report>>
    /\ UNCHANGED <<draw_vars, frame_vars, patch_vars>>

RunNext ==
    \/ RunBegin
    \/ CrosstermRunIterate
    \/ PixelsMainEventsCleared
    \/ PixelsCloseRequested
    \/ PixelsLoopDestroyed

SpecRun == RunInit /\ [][RunNext]_vars

\* InMemoryCanvas::new(width, height, color), no method called yet
DrawInit ==
    /\ \E size \in DrawSizes, color \in DrawColors :
         in_memory = InMemoryCanvas(size[1], size[2], color)
    /\ call = NoCall
    /\ LoopParked
    /\ InputParked
    /\ CanvasParked
    /\ RunParked
    /\ FrameParked
    /\ PatchParked

\* the bookkeeping of a call of a drawing method
DrawCall(c, d) ==
    /\ in_memory' = d.cv
    /\ call' = [c EXCEPT !.before = in_memory, !.panicked = d.panicked, !.ranges = d.ranges]

\* canvas.set(x, y, &color) at a pixel of the canvas, before the call looked at
DrawSet ==
    /\ call.op = "none"
    /\ \E x \in 0..(in_memory.width - 1), y \in 0..(in_memory.height - 1),
          color \in DrawColors :
         in_memory' = set(in_memory, x, y, color).cv
    /\ UNCHANGED <<call, loop_vars, input_vars, canvas_vars, run_vars, frame_vars, patch_vars>>

\* canvas.set(x, y, &color) with any unsigned coordinates, as the call looked at
DrawSetCall ==
    /\ call.op = "none"
    /\ \E x \in DrawExtents, y \in DrawExtents, color \in DrawColors :
         LET r == set(in_memory, x, y, color)
         IN DrawCall([NoCall EXCEPT !.op = "set", !.x = x, !.y = y, !.color = <<color>>],
                     Drawn(r.cv, r.panicked, <<>>))
    /\ UNCHANGED <<loop_vars, input_vars, canvas_vars, run_vars, frame_vars, patch_vars>>

\* canvas.get(x, y) with any unsigned coordinates
DrawGetCall ==
    /\ call.op = "none"
    /\ \E x \in DrawExtents, y \in DrawExtents :
         LET r == get(in_memory, x, y)
         IN call' = [NoCall EXCEPT !.op = "get", !.x = x, !.y = y, !.before = in_memory,
                                   !.result = r, !.panicked = (r = <<>>)]
    /\ UNCHANGED <<in_memory, loop_vars, input_vars, canvas_vars, run_vars, frame_vars, patch_vars>>

\* Color::from_rgba(a1, a2, a3, a4): args are the arguments in call order
DrawFromRgba ==
    /\ call.op = "none"
    /\ \E a1 \in Channels, a2 \in Channels, a3 \in Channels, a4 \in Channels :
         call' = [NoCall EXCEPT !.op = "from_rgba", !.args = <<a1, a2, a3, a4>>,
                                !.before = in_memory,
                                !.result = <<from_rgba(a1, a2, a3, a4)>>]
    /\ UNCHANGED <<in_memory, loop_vars, input_vars, canvas_vars, run_vars, frame_vars, patch_vars>>

\* Color::from_rgb(a1, a2, a3)
DrawFromRgb ==
    /\ call.op = "none"
    /\ \E a1 \in Channels, a2 \in Channels, a3 \in Channels :
         call' = [NoCall EXCEPT !.op = "from_rgb", !.args = <<a1, a2, a3>>,
                                !.before = in_memory,
                                !.result = <<from_rgb(a1, a2, a3)>>]
    /\ UNCHANGED <<in_memory, loop_vars, input_vars, canvas_vars, run_vars, frame_vars, patch_vars>>

\* canvas.clip_rect(x, y, w, h)
DrawClipRect ==
    /\ call.op = "none"
    /\ \E x \in DrawCoords, y \in DrawCoords, w \in DrawExtents, h \in DrawExtents :
         call' = [NoCall EXCEPT !.op = "clip_rect", !.x = x, !.y = y, !.w = w, !.h = h,
                                !.before = in_memory,
                                !.result = clip_rect(in_memory, x, y, w, h)]
    /\ UNCHANGED <<in_memory, loop_vars, input_vars, canvas_vars, run_vars, frame_vars, patch_vars>>

\* canvas.filled_rect(x, y, w, h, &color)
DrawFilledRect ==
    /\ call.op = "none"
    /\ \E x \in DrawCoords, y \in DrawCoords, w \in DrawExtents, h \in DrawExtents,
          color \in DrawColors, alloc_ok \in BOOLEAN :
         DrawCall([NoCall EXCEPT !.op = "filled_rect", !.x = x, !.y = y, !.w = w, !.h = h,
                                 !.color = <<color>>],
                  filled_rect(in_memory, x, y, w, h, color, alloc_ok))
    /\ UNCHANGED <<loop_vars, input_vars, canvas_vars, run_vars, frame_vars, patch_vars>>

\* canvas.clear_screen(&color)
DrawClearScreen ==
    /\ call.op = "none"
    /\ \E color \in DrawColors :
         DrawCall([NoCall EXCEPT !.op = "clear_screen", !.color = <<color>>],
                  clear_screen(in_memory, color))
    /\ UNCHANGED <<loop_vars, input_vars, canvas_vars, run_vars, frame_vars, patch_vars>>

\* canvas.blit_rect(&src, src_x, src_y, w, h, dst_x, dst_y, tint)
DrawBlitRect ==
    /\ call.op = "none"
    /\ \E src \in DrawSources, src_x \in 0..1, src_y \in 0..1, w \in 0..2, h \in 1..2,
          x \in BlitCoordsX, y \in BlitCoordsY, tint \in DrawTints :
         DrawCall([NoCall EXCEPT !.op = "blit_rect", !.x = x, !.y = y, !.w = w, !.h = h,
                                 !.src = <<src>>, !.src_x = src_x, !.src_y = src_y,
                                 !.tint = tint],
                  blit_rect(in_memory, src, src_x, src_y, w, h, x, y, tint))
    /\ UNCHANGED <<loop_vars, input_vars, canvas_vars, run_vars, frame_vars, patch_vars>>

\* canvas.blit(&src, dst_x, dst_y, tint)
DrawBlit ==
    /\ call.op = "none"
    /\ \E src \in DrawSources, x \in DrawCoords, y \in DrawCoords, tint \in DrawTints :
         DrawCall([NoCall EXCEPT !.op = "blit", !.x = x, !.y = y, !.w = src.width,
                                 !.h = src.height, !.src = <<src>>, !.tint = tint],
                  blit(in_memory, src, x, y, tint))
    /\ UNCHANGED <<loop_vars, input_vars, canvas_vars, run_vars, frame_vars, patch_vars>>

\* canvas.maybe_get(x, y)
DrawMaybeGet ==
    /\ call.op = "none"
    /\ \E x \in DrawCoords, y \in DrawCoords :
         call' = [NoCall EXCEPT !.op = "maybe_get", !.x = x, !.y = y,
                                !.before = in_memory,
                                !.result = maybe_get(in_memory, x, y)]
    /\ UNCHANGED <<in_memory, loop_vars, input_vars, canvas_vars, run_vars, frame_vars, patch_vars>>

\* canvas.is_empty_or_color(x, y, &color)
DrawIsEmptyOrColor ==
    /\ call.op = "none"
    /\ \E x \in DrawCoords, y \in DrawCoords, color \in DrawColors :
         call' = [NoCall EXCEPT !.op = "is_empty_or_color", !.x = x, !.y = y,
                                !.color = <<color>>, !.before = in_memory,
                                !.result = <<is_empty_or_color(in_memory, x, y, color)>>]
    /\ UNCHANGED <<in_memory, loop_vars, input_vars, canvas_vars, run_vars, frame_vars, patch_vars>>

DrawNext ==
    \/ DrawSet
    \/ DrawSetCall
    \/ DrawGetCall
    \/ DrawFromRgba
    \/ DrawFromRgb
    \/ DrawClipRect
    \/ DrawFilledRect
    \/ DrawClearScreen
    \/ DrawBlitRect
    \/ DrawBlit
    \/ DrawMaybeGet
    \/ DrawIsEmptyOrColor

SpecDraw == DrawInit /\ [][DrawNext]_vars

\* CrosstermCanvas::new_with_size(..).with_refresh_limit(limit)
FrameInit ==
    /\ \E limit \in RefreshLimits : frame_limit_nanos = with_refresh_limit(limit)
    /\ last_frame_time = 0
    /\ now = 0
    /\ frame_wait = NoWait
    /\ frames = 0
    /\ LoopParked
    /\ InputParked
    /\ CanvasParked
    /\ RunParked
    /\ DrawParked
    /\ PatchParked

\* CrosstermCanvas::wait_for_next_frame, called gap nanoseconds after the
\* clock was last looked at
WaitForNextFrame ==
    /\ frames < MaxFrames
    /\ \E gap \in FrameGaps, over \in Oversleeps, lag \in ClockLags, late \in ClockLags :
         LET t0 == now + gap
             e1 == elapsed_since_last_frame(t0, last_frame_time)
             sl == wait_half_using_thread_sleep(e1, frame_limit_nanos)
             \* thread::sleep returns after at least the duration asked for
             t1 == IF sl = <<>> THEN t0 ELSE t0 + sl[1] + over
             e2 == elapsed_since_last_frame(t1, last_frame_time)
             sp == wait_using_spinlock(e2, frame_limit_nanos)
             \* let target_time = Instant::now() + Duration::from_nanos(wait_time)
             t2 == IF sp = <<>> THEN t1 ELSE t1 + lag + sp[1]
             \* self.last_frame_time = Instant::now()
             t3 == t2 + late
         IN /\ last_frame_time' = t3
            /\ now' = t3
            /\ frame_wait' = [elapsed |-> e1, slept |-> sl, spun |-> sp,
                              previous |-> last_frame_time, done |-> TRUE]
    /\ frames' = frames + 1
    /\ UNCHANGED frame_limit_nanos
    /\ UNCHANGED <<loop_vars, input_vars, canvas_vars, run_vars, draw_vars, patch_vars>>

SpecFrame == FrameInit /\ [][WaitForNextFrame]_vars

\* Patch::new(x, y) for a patch that starts at a cell of the screen
PatchInit ==
    /\ \E x \in 0..1, y \in 0..1 : row_patch = PatchNew(x, y)
    /\ row_cells = <<>>
    /\ LoopParked
    /\ InputParked
    /\ CanvasParked
    /\ RunParked
    /\ DrawParked
    /\ FrameParked

\* patch.add_two_row_pixel(&upper, &lower)
AddTwoRowPixel ==
    /\ Len(row_cells) < MaxCells
    /\ \E upper \in PatchColors, lower \in PatchColors :
         /\ row_patch' = add_two_row_pixel(row_patch, upper, lower)
         /\ row_cells' = Append(row_cells, <<upper, lower>>)
    /\ UNCHANGED <<loop_vars, input_vars, canvas_vars, run_vars, draw_vars, frame_vars>>

SpecPatch == PatchInit /\ [][AddTwoRowPixel]_vars

(***************************************************************************)
(* Claims about the scheduler, checked under SpecLoop.                     *)
(***************************************************************************)
AllOk == \A i \in 1..Len(hist) : hist[i].result = "Ok"
TotalUpdates == SumOver(hist, "updates")
TotalDt == SumOver(hist, "dt")
TicksPerClamp == as_nanos(from_millis(MaxDtMillis)) \div update_timestep

\* C1: for deltas of at most 100 ms each that sum to T, the number of update
\* invocations made by the end of the iterations differs from floor(T / tick)
\* by at most one.
C1_UpdateCountWithinOneTick ==
    (/\ loop_status = "running"
     /\ AllOk
     /\ \A i \in 1..Len(hist) : ~DurationGT(hist[i].raw, from_millis(MaxDtMillis)))
    => (TotalUpdates - (TotalDt \div update_timestep)) \in -1..1

\* C2 as stated: a 5 s delta is clamped to 100 ms and no iteration runs more
\* than floor(100 ms / tick) updates.
C2_AtMostFloorUpdates ==
    \A i \in 1..Len(hist) :
        /\ hist[i].raw = <<5, 0>> => hist[i].dt = 100000000
        /\ hist[i].updates <= TicksPerClamp

\* C2 amended: a 5 s delta is clamped to 100 ms and no iteration runs more
\* than floor(100 ms / tick) + 1 updates.
C2_AtMostFloorPlusOneUpdates ==
    \A i \in 1..Len(hist) :
        /\ hist[i].raw = <<5, 0>> => hist[i].dt = 100000000
        /\ hist[i].updates <= TicksPerClamp + 1

\* the iteration after a 5 s stall runs floor(100 ms / tick) + 1 updates
C2_Witness ==
    \E i \in 1..Len(hist) - 1 :
        /\ hist[i].raw = <<5, 0>>
        /\ hist[i].dt = 100000000
        /\ hist[i + 1].updates = TicksPerClamp + 1

\* C3: every iteration in which no callback fails invokes render exactly once,
\* after all of the iteration's update invocations.
C3_RenderOnceAfterUpdates ==
    \A i \in 1..Len(hist) :
        hist[i].result = "Ok" =>
            LET c == hist[i].calls IN
            /\ Len(c) >= 1
            /\ c[Len(c)] = "render"
            /\ \A k \in 1..Len(c) - 1 : c[k] = "update"

\* successful iterations with zero, one and many updates have all happened
C3_Witness ==
    /\ \E i \in 1..Len(hist) : hist[i].result = "Ok" /\ hist[i].updates = 0
    /\ \E i \in 1..Len(hist) : hist[i].result = "Ok" /\ hist[i].updates = 1
    /\ \E i \in 1..Len(hist) : hist[i].result = "Ok" /\ hist[i].updates >= 2

(***************************************************************************)
(* Claims about CrosstermInputState, checked under SpecInput.              *)
(***************************************************************************)
\* C4: in fallback mode with N >= 1 cycles, after the refresh that processed
\* a lone Press of an up key and n event-free refreshes, the key is reported
\* pressed iff n = 0, is down iff n <= N - 1 and is reported released iff n = N.
C4_FallbackRoundTrip ==
    \A k \in KeyboardKeys :
        (/\ ~enhanced_keyboard
         /\ event_cycles_before_released >= 1
         /\ quiet[k] >= 0)
        => /\ is_key_pressed(k) <=> quiet[k] = 0
           /\ is_key_down(k) <=> quiet[k] <= event_cycles_before_released - 1
           /\ is_key_released(k) <=> quiet[k] = event_cycles_before_released

\* the release of the round trip: N = 2 refreshes after the press of A
C4_Witness ==
    /\ ~enhanced_keyboard
    /\ input_phase = "begun"
    /\ event_cycles_before_released = 2
    /\ quiet["A"] = 2
    /\ is_key_released("A")
    /\ ~is_key_down("A")

\* C5: every key present in the down-table has a countdown greater than 0.
C5_DownCountdownPositive ==
    \A k \in DOMAIN keys_down : keys_down[k] > 0

Prints(patch) == Cardinality({i \in 1..Len(patch.data) : patch.data[i].op = "Print"})
\* the screen cells <<column, cell row>> a list of patches writes
PatchCells(ps) ==
    UNION { { <<ps[i].position[1] + n, ps[i].position[2]>> : n \in 0..Prints(ps[i]) - 1 }
            : i \in 1..Len(ps) }
PixelAt(buf, x, y) == buf[y * width + x + 1]
\* the cells whose upper pixel (x, 2r) or lower pixel (x, 2r + 1) differs from previous_buffer
ChangedCells ==
    { c \in (0..width - 1) \X (0..(height + 1) \div 2 - 1) :
        \/ PixelAt(buffer, c[1], 2 * c[2]) # PixelAt(previous_buffer, c[1], 2 * c[2])
        \/ /\ 2 * c[2] + 1 < height
           /\ PixelAt(buffer, c[1], 2 * c[2] + 1) # PixelAt(previous_buffer, c[1], 2 * c[2] + 1) }

\* C6: after a successful render and with the buffer untouched since, the
\* next calculate_patches yields zero patches.
C6_SecondRenderNoPatches ==
    clean => calculate_patches(width, height, buffer, previous_buffer) = <<>>

\* a frame with a red pixel was written (as patches) and the buffer is untouched since
C6_Witness ==
    /\ clean
    /\ render_result = "Ok"
    /\ patches # <<>>
    /\ \E i \in 1..Len(buffer) : buffer[i] = from_rgb(255, 0, 0)

\* C7: for even and odd heights, a cell is in some patch iff its upper or its
\* lower pixel differs from previous_buffer.
C7_PatchesAreChangedCells ==
    PatchCells(calculate_patches(width, height, buffer, previous_buffer)) = ChangedCells

(***************************************************************************)
(* Claims about the driving loops (SpecRun).                               *)
(***************************************************************************)

\* C8: once begin() has succeeded, whenever an error propagates out of an
\* update callback, the render callback or next_loop, the input backend's
\* finish() has been invoked before the process terminates.
C8_FinishOnErrorPaths ==
    (run_pc = "panicked" /\ panic_cause = "next_loop") => finish_codes # <<>>

CanvasPixels(cv) == (0..(cv.width - 1)) \X (0..(cv.height - 1))
RectPixels(x, y, w, h) == (x..(x + w - 1)) \X (y..(y + h - 1))
\* the pixels the rectangle of the latest call has in common with the canvas
CallVisible == RectPixels(call.x, call.y, call.w, call.h) \cap CanvasPixels(call.before)
\* the color at pixel p of a canvas
ColorAt(cv, p) == cv.buffer[p[2] * cv.width + p[1] + 1]

\* C11: clip_rect returns None if and only if the rectangle has no pixel in
\* common with [0,W)x[0,H); a rectangle covering at least one canvas pixel
\* yields neither None nor a result of zero width or height.
C11_ClipNoneIffDisjoint ==
    call.op = "clip_rect" =>
        /\ (call.result = <<>>) <=> (CallVisible = {})
        /\ call.result # <<>> => (call.result[1][3] > 0 /\ call.result[1][4] > 0)

\* C12: whenever clip_rect returns Some((x', y', w', h')), the result is the
\* exact intersection of the requested rectangle with [0,W)x[0,H):
\* x' = max(0, x), y' = max(0, y), w' = min(x + w, W) - x', h' = min(y + h, H) - y'.
C12_ClipIsExactIntersection ==
    (call.op = "clip_rect" /\ call.result # <<>>) =>
        LET nx == Max(0, call.x)
            ny == Max(0, call.y)
        IN call.result[1] = <<nx, ny,
                              Min(call.x + call.w, call.before.width) - nx,
                              Min(call.y + call.h, call.before.height) - ny>>

\* C13: for all canvas dimensions, W = 0 or H = 0 included, whenever clip_rect
\* returns Some((x', y', w', h')) the width and height are non-negative before
\* the cast to unsigned, and x' + w' <= W and y' + h' <= H.
C13_ClipNonNegativeAndInside ==
    (call.op = "clip_rect" /\ call.result # <<>>) =>
        LET r == call.result[1]
        IN /\ r[3] >= 0
           /\ r[4] >= 0
           /\ r[1] + r[3] <= call.before.width
           /\ r[2] + r[4] <= call.before.height

\* C14: after filled_rect(x, y, w, h, color), every pixel lying both inside
\* the requested rectangle and inside the canvas equals color.
C14_FilledRectFillsVisible ==
    (call.op = "filled_rect" /\ ~call.panicked) =>
        \A p \in CallVisible : ColorAt(in_memory, p) = call.color[1]

\* C15: filled_rect leaves every pixel outside the requested rectangle
\* unchanged and never issues a set_range whose index range leaves [0, W*H),
\* for every rectangle, partly or fully outside the canvas included.
C15_FilledRectStaysInside ==
    call.op = "filled_rect" =>
        /\ \A p \in CanvasPixels(call.before) \ CallVisible :
              ColorAt(in_memory, p) = ColorAt(call.before, p)
        /\ \A k \in 1..Len(call.ranges) :
              /\ 0 <= call.ranges[k][1]
              /\ call.ranges[k][1] <= call.ranges[k][2]
              /\ call.ranges[k][2] <= call.before.width * call.before.height

\* C16: after clear_screen(color), every pixel of the canvas, the last column
\* and the last row included, equals color.
C16_ClearScreenFillsAll ==
    (call.op = "clear_screen" /\ ~call.panicked) =>
        \A p \in CanvasPixels(in_memory) : ColorAt(in_memory, p) = call.color[1]

\* C17: for every source canvas content and every destination position, blit
\* with tint = Color::from_rgb(255, 255, 255) leaves the destination canvas
\* pixel-for-pixel identical to blit with no tint.
C17_WhiteTintIsNoTint ==
    (call.op = "blit" /\ call.tint = <<from_rgb(255, 255, 255)>> /\ ~call.panicked) =>
        in_memory = blit(call.before, call.src[1], call.x, call.y, <<>>).cv

\* the source pixel read for index i of the k-th range written by blit_rect
BlitSourceOf(k, i) ==
    call.src[1].buffer[(call.src_y + k - 1) * call.src[1].width + call.src_x
                       + (i - call.ranges[k][1])]

\* C18: with a tint, each pixel blit_rect writes has red = floor(src.r * tint.r / 255),
\* green = floor(src.g * tint.g / 255) and blue = floor(src.b * tint.b / 255).
C18_TintScalesSameChannel ==
    (call.op \in {"blit_rect", "blit"} /\ call.tint # <<>> /\ ~call.panicked) =>
        \A k \in 1..Len(call.ranges) :
            \A i \in (call.ranges[k][1] + 1)..call.ranges[k][2] :
                LET c == BlitSourceOf(k, i)
                    t == call.tint[1]
                    d == in_memory.buffer[i]
                IN /\ d.r = (c.r * t.r) \div 255
                   /\ d.g = (c.g * t.g) \div 255
                   /\ d.b = (c.b * t.b) \div 255

\* C19: an untinted blit_rect whose source rectangle lies inside the source
\* canvas leaves every destination pixel (X, Y) inside both the destination
\* canvas and [dst_x, dst_x + w) x [dst_y, dst_y + h) equal to source pixel
\* (src_x + X - dst_x, src_y + Y - dst_y), and every other pixel unchanged.
C19_BlitCopiesVisible ==
    (/\ call.op = "blit_rect"
     /\ call.tint = <<>>
     /\ ~call.panicked
     /\ call.src_x + call.w <= call.src[1].width
     /\ call.src_y + call.h <= call.src[1].height) =>
        \A p \in CanvasPixels(in_memory) :
            ColorAt(in_memory, p) =
                IF p \in CallVisible
                THEN ColorAt(call.src[1], <<call.src_x + p[1] - call.x,
                                            call.src_y + p[2] - call.y>>)
                ELSE ColorAt(call.before, p)

\* the latest call's coordinates lie outside the canvas it was made on
CallOutOfView ==
    \/ call.x < 0
    \/ call.y < 0
    \/ call.x >= call.before.width
    \/ call.y >= call.before.height

\* C20: maybe_get(x, y) returns None exactly when x < 0, y < 0, x >= W or
\* y >= H, and otherwise the pixel stored at row-major index y*W + x;
\* is_empty_or_color(x, y, c) is true exactly when that pixel is absent or equals c.
C20_MaybeGetInBoundsOnly ==
    /\ call.op = "maybe_get" =>
          call.result = IF CallOutOfView THEN <<>>
                        ELSE <<call.before.buffer[call.y * call.before.width + call.x + 1]>>
    /\ call.op = "is_empty_or_color" =>
          call.result[1] =
              (\/ CallOutOfView
               \/ call.before.buffer[call.y * call.before.width + call.x + 1] = call.color[1])

\* maybe_get found, in the first column of the second row, a pixel that
\* differs from the other pixels of its canvas
C20_Witness ==
    /\ call.op = "maybe_get"
    /\ call.x = 0
    /\ call.y = 1
    /\ call.result # <<>>
    /\ \A p \in CanvasPixels(call.before) \ {<<0, 1>>} :
          ColorAt(call.before, p) # call.result[1]
    /\ Cardinality(CanvasPixels(call.before)) > 1

\* C21: set(x, y, color) with x >= W or y >= H changes no pixel and raises no
\* error, and get(x, y) with such coordinates raises no error; out-of-range
\* coordinates never address a different in-range pixel.
C21_OutOfRangeSetGetNoOp ==
    (call.op \in {"set", "get"} /\ CallOutOfView) =>
        /\ ~call.panicked
        /\ in_memory = call.before
        /\ call.result = <<>>

\* C22: Color::from_rgba(r, g, b, a), its arguments in the documented order
\* red, green, blue, alpha, yields a color with exactly those channels, and
\* Color::from_rgb(r, g, b) the same with alpha 255.
C22_ConstructorsKeepChannelOrder ==
    /\ call.op = "from_rgba" =>
          call.result[1] = [r |-> call.args[1], g |-> call.args[2],
                            b |-> call.args[3], a |-> call.args[4]]
    /\ call.op = "from_rgb" =>
          call.result[1] = [r |-> call.args[1], g |-> call.args[2],
                            b |-> call.args[3], a |-> 255]

(***************************************************************************)
(* Further claims about CrosstermInputState (SpecInput).                   *)
(***************************************************************************)
\* the Press and Release events of a batch that concern key k
PressReleaseOf(evs, k) == {i \in EventsOf(evs, k) : evs[i].kind \in {"Press", "Release"}}
\* key k is in the down-table just before event i of the batch is processed
DownBefore(evs, k, i) ==
    LET prev == {j \in PressReleaseOf(evs, k) : j < i}
    IN IF prev = {} THEN k \in DOMAIN keys_down
       ELSE evs[CHOOSE j \in prev : \A n \in prev : n <= j].kind = "Press"
\* a step of SpecInput in which the enhanced strategy ran over the queued events
EnhancedRefreshStep ==
    /\ input_phase = "begun"
    /\ enhanced_keyboard
    /\ event_queue' = <<>>
    /\ last_result' = Continue

\* C23: in enhanced mode a refresh empties the pressed-set and the released-set
\* and then processes the queued events in order: a Press puts the key in the
\* down-table and in the pressed-set only if it was not in the down-table; a
\* Release removes it from the down-table and puts it in the released-set only
\* if it was in the down-table; a Repeat changes nothing.
C23_EnhancedRefresh ==
    [][EnhancedRefreshStep =>
          \A k \in KeyboardKeys :
              LET at == PressReleaseOf(event_queue, k)
              IN /\ (k \in keys_pressed_this_update') <=>
                       \E i \in at : /\ event_queue[i].kind = "Press"
                                     /\ ~DownBefore(event_queue, k, i)
                 /\ (k \in keys_released_this_update') <=>
                       \E i \in at : /\ event_queue[i].kind = "Release"
                                     /\ DownBefore(event_queue, k, i)
                 /\ (k \in DOMAIN keys_down') <=>
                       DownBefore(event_queue, k, Len(event_queue) + 1)
                 /\ (k \in DOMAIN keys_down') =>
                       keys_down'[k] = IF at = {} THEN keys_down[k]
                                       ELSE event_cycles_before_released]_vars

\* one enhanced refresh processed a Press and then a Release of A
C23_Witness ==
    /\ enhanced_keyboard
    /\ last_result = Continue
    /\ is_key_pressed("A")
    /\ is_key_released("A")
    /\ is_key_up("A")

(***************************************************************************)
(* Further claims about CrosstermCanvas (SpecCanvas).                      *)
(***************************************************************************)
\* C24: after every render that returns Ok, previous_buffer is
\* element-for-element equal to the current buffer.
C24_PreviousEqualsBufferAfterRender ==
    (render_result = "Ok" /\ clean) => previous_buffer = buffer

\* a render of an odd-height canvas whose last row holds a red pixel returned Ok
C24_Witness ==
    /\ render_result = "Ok"
    /\ clean
    /\ height = 3
    /\ previous_buffer[Len(previous_buffer)] = from_rgb(255, 0, 0)

\* C25: in every reachable state of CrosstermCanvas the lengths of buffer and
\* previous_buffer both equal width x height; only resize_surface changes a
\* length, and it replaces both buffers in the same step.
C25_BufferLengths ==
    /\ [](/\ Len(buffer) = width * height
          /\ Len(previous_buffer) = width * height)
    /\ [][(\/ Len(buffer') # Len(buffer)
           \/ Len(previous_buffer') # Len(previous_buffer)
           \/ width' # width
           \/ height' # height)
          => /\ buffer' = Fill(from_rgb(0, 0, 0), width' * height')
             /\ previous_buffer' = Fill(from_rgba(0, 0, 0, 0), width' * height')]_vars

\* a resize to 2 x 4 after a render that returned Ok: both buffers are fresh
C25_Witness ==
    /\ render_result = "Ok"
    /\ ~clean
    /\ width = 2
    /\ height = 4
    /\ buffer = Fill(from_rgb(0, 0, 0), 8)
    /\ previous_buffer = Fill(from_rgba(0, 0, 0, 0), 8)

(***************************************************************************)
(* Further claims about the scheduler (SpecLoop).                          *)
(***************************************************************************)
\* C26: constructing the scheduler with an update rate of 0 fails at
\* construction, so no iteration, update or render runs with a zero rate.
C26_ZeroRateIsFatal ==
    update_fps = 0 => (loop_status = "panicked" /\ hist = <<>>)

\* PixelLoop::new(0, ..) panicked
C26_Witness ==
    /\ update_fps = 0
    /\ loop_status = "panicked"
    /\ update_timestep = 0
    /\ input_phase = "created"

\* C27: if the update callback returns an error during an iteration, next_loop
\* returns that error at once: no further update runs in that iteration, the
\* render callback is not invoked in it, and no further iteration is made.
C27_UpdateErrorAborts ==
    \A i \in 1..Len(hist) :
        LET f == hist[i].fail_at
            c == hist[i].calls
        IN (f > 0 /\ Len(c) >= f /\ c[f] = "update") =>
              /\ Len(c) = f
              /\ hist[i].result = "Err"
              /\ i = Len(hist)
              /\ loop_status = "failed"

\* the second update of the second iteration failed with more ticks pending
C27_Witness ==
    /\ Len(hist) = 2
    /\ hist[2].fail_at = 2
    /\ hist[2].calls = <<"update", "update">>
    /\ accumulator > 2 * update_timestep
    /\ loop_status = "failed"

\* C29: within one iteration the clamped dt of that iteration is added to the
\* accumulator before the drain loop runs: the updates of the iteration drain
\* the old accumulator plus the dt of that same iteration down to one tick.
C29_DtDrainedInSameIteration ==
    [][(Len(hist') = Len(hist) + 1 /\ hist'[Len(hist')].result = "Ok") =>
          LET e == hist'[Len(hist')]
              total == accumulator + e.dt
          IN /\ total - e.updates * update_timestep <= update_timestep
             /\ e.updates > 0 => total - (e.updates - 1) * update_timestep > update_timestep
      ]_vars

\* C30: as long as no callback returns an error, after every iteration the sum
\* of all clamped deltas measured so far equals the tick duration times the
\* number of update invocations so far plus the current accumulator.
C30_ElapsedTimeConserved ==
    AllOk => TotalDt = update_timestep * TotalUpdates + accumulator

\* three iterations, one of them without an update, with a remainder kept
C30_Witness ==
    /\ Len(hist) = 3
    /\ AllOk
    /\ TotalUpdates >= 2
    /\ \E i \in 1..3 : hist[i].updates = 0 /\ hist[i].dt > 0
    /\ accumulator > 0
    /\ accumulator < update_timestep

(***************************************************************************)
(* Claims about frame pacing, checked under SpecFrame.                     *)
(***************************************************************************)
\* C28: wait_for_next_frame uses a thread sleep, of half the remaining budget,
\* only when the elapsed time is below the frame budget and half of the
\* remaining time exceeds 4 ms, and it returns no earlier than
\* frame_limit_nanos after the previous last_frame_time.
C28_FramePacing ==
    frame_wait.done =>
        /\ frame_wait.slept # <<>> =>
              LET remaining == frame_limit_nanos - frame_wait.elapsed
              IN /\ remaining > 0
                 /\ 2 * frame_wait.slept[1] \in {remaining, remaining - 1}
                 /\ frame_wait.slept[1] > 4000000
        /\ last_frame_time >= frame_wait.previous + frame_limit_nanos

\* a second frame that slept, spun and came exactly one budget after the first
C28_Witness ==
    /\ frames = 2
    /\ frame_wait.done
    /\ frame_wait.slept # <<>>
    /\ frame_wait.spun # <<>>
    /\ frame_wait.previous > 0
    /\ last_frame_time = frame_wait.previous + frame_limit_nanos

(***************************************************************************)
(* Claims about held keys and the transient sets (SpecInput).              *)
(***************************************************************************)
\* a step of SpecInput in which the fallback strategy ran over the queued events
FallbackRefreshStep ==
    /\ input_phase = "begun"
    /\ ~enhanced_keyboard
    /\ event_queue' = <<>>
    /\ last_result' = Continue

\* the batch holds a Press of key k
HasPressOf(evs, k) == \E i \in EventsOf(evs, k) : evs[i].kind = "Press"

\* C31: in fallback mode with N cycles, a key whose Press events arrive with at
\* most N refreshes between consecutive ones stays down after every refresh of
\* the span, is in the pressed-set only after the refresh of its first Press,
\* and is never in the released-set: a Press that arrives while the countdown
\* of the previous Press is still running continues the span.
C31_HeldKeyStaysDown ==
    [][FallbackRefreshStep =>
          \A k \in KeyboardKeys :
              (/\ event_cycles_before_released >= 1
               /\ k \in DOMAIN keys_down
               /\ keys_down[k] >= 1
               /\ HasPressOf(event_queue, k))
              => /\ k \in DOMAIN keys_down'
                 /\ k \notin keys_pressed_this_update'
                 /\ k \notin keys_released_this_update']_vars

(***************************************************************************)
(* Claims about the patches of CrosstermCanvas (SpecCanvas).               *)
(***************************************************************************)
\* the cells <<column, cell row>> one patch writes
CellsOf(patch) == { <<patch.position[1] + n, patch.position[2]>> : n \in 0..Prints(patch) - 1 }

\* C32: every patch produced by calculate_patches is a maximal run of
\* horizontally adjacent changed cells inside one cell row, anchored at its
\* first cell: it does not run past the row end, holds no unchanged cell, shares
\* no cell with another patch, and none is left open at the end of the scan.
C32_PatchesAreMaximalRuns ==
    LET scan == ScanRows([patches |-> <<>>, active_patch |-> <<>>], 0,
                         width, height, buffer, previous_buffer)
        ps == calculate_patches(width, height, buffer, previous_buffer)
    IN /\ scan.active_patch = <<>>
       /\ \A i \in 1..Len(ps) :
            LET x0 == ps[i].position[1]
                r  == ps[i].position[2]
                n  == Prints(ps[i])
            IN /\ n >= 1
               /\ x0 + n <= width
               /\ CellsOf(ps[i]) \subseteq ChangedCells
               /\ x0 = 0 \/ <<x0 - 1, r>> \notin ChangedCells
               /\ x0 + n = width \/ <<x0 + n, r>> \notin ChangedCells
               /\ \A j \in 1..Len(ps) : j # i => CellsOf(ps[i]) \cap CellsOf(ps[j]) = {}

(***************************************************************************)
(* Claims about Patch::add_two_row_pixel, checked under SpecPatch.         *)
(***************************************************************************)
\* the places of the glyphs in the data of the patch, in order
GlyphAt(j) ==
    CHOOSE i \in 1..Len(row_patch.data) :
        /\ row_patch.data[i].op = "Print"
        /\ Cardinality({n \in 1..i : row_patch.data[n].op = "Print"}) = j
\* the data emitted for cell j: what lies after the glyph of cell j - 1, up to its own glyph
EmittedFor(j) ==
    LET from == IF j = 1 THEN 1 ELSE GlyphAt(j - 1) + 1
    IN SubSeq(row_patch.data, from, GlyphAt(j))

\* C33: within one patch a color-pair escape sequence is emitted for a cell iff
\* the cell is the first of the patch or its (upper, lower) pair differs from
\* the pair of the cell written just before it; one glyph is emitted per cell.
C33_ColorPairOnlyOnChange ==
    /\ Prints(row_patch) = Len(row_cells)
    /\ row_cells # <<>> => row_patch.data[Len(row_patch.data)].op = "Print"
    /\ \A j \in 1..Len(row_cells) :
          EmittedFor(j) =
             IF j = 1 \/ row_cells[j] # row_cells[j - 1]
             THEN <<SetColors(row_cells[j][1], row_cells[j][2]), PrintHalfBlock>>
             ELSE <<PrintHalfBlock>>

\* three cells: the second repeats the pair of the first, the third changes it
C33_Witness ==
    /\ Len(row_cells) = 3
    /\ row_cells[2] = row_cells[1]
    /\ row_cells[3] # row_cells[2]
    /\ Len(row_patch.data) = 5

\* every screen cell <<column, cell row>> of the canvas
AllCells == (0..width - 1) \X (0..(height + 1) \div 2 - 1)

\* C34: the first render after construction or after resize_surface puts every
\* screen cell of the canvas into a patch, whatever colors the application has
\* drawn into the buffer since the (re)allocation.
C34_FirstRenderRepaintsAll ==
    fresh => PatchCells(calculate_patches(width, height, buffer, previous_buffer)) = AllCells

(***************************************************************************)
(* Claims about the event loop of CrosstermCanvas::run (SpecRun).          *)
(***************************************************************************)
InLog(log, what) == \E i \in 1..Len(log) : log[i] = what

\* C35: in the terminal driving loop every event pending at the start of an
\* iteration is handed to the input state, in arrival order, before that
\* iteration's next_loop, and a Resize among them has resized both buffers
\* before the render: render never runs while the canvas dimensions differ
\* from the last reported terminal size.
C35_EventsAndResizeBeforeNextLoop ==
    last_poll.polled =>
        /\ IF InLog(last_poll.log, "refresh")
           THEN event_queue = <<>>
           ELSE event_queue = last_poll.pending \o last_poll.batch
        /\ (InLog(last_poll.log, "render") /\ last_poll.reported # <<>>) =>
              /\ width = last_poll.reported[1][1]
              /\ height = 2 * last_poll.reported[1][2]
              /\ Len(buffer) = width * height
              /\ Len(previous_buffer) = width * height

\* two Resize events polled in one iteration, the later one for another size,
\* and the render of that iteration ran on a canvas of the later size
C35_Witness ==
    /\ last_poll.polled
    /\ Len(last_poll.batch) = 2
    /\ last_poll.batch[1] = ResizeEvent(2, 1)
    /\ last_poll.batch[2] = ResizeEvent(1, 1)
    /\ InLog(last_poll.log, "refresh")
    /\ InLog(last_poll.log, "render")
    /\ width = 1
    /\ height = 2

\* a step of SpecInput in which a refresh ran a strategy over the queued events
RefreshStep ==
    /\ input_phase = "begun"
    /\ event_queue' = <<>>
    /\ last_result' = Continue

\* C36: for each key, in either mode, pressed and released reports alternate over
\* successive refreshes, starting with pressed: a key is not reported pressed in
\* two refreshes without a released report in between or in the second of them,
\* and is not reported released without a preceding pressed report.
C36_ReportsAlternate ==
    [][RefreshStep =>
          \A k \in KeyboardKeys :
              /\ (k \in keys_pressed_this_update' /\ last_report[k] = "pressed")
                    => k \in keys_released_this_update'
              /\ (k \in keys_released_this_update' /\ last_report[k] = "none")
                    => k \in keys_pressed_this_update']_vars

\* C37 as stated: after every refresh, in either mode, a key in the
\* released-set is not in the down-table and a key in the pressed-set is.
C37_SetsAgreeWithDownTable ==
    \A k \in KeyboardKeys :
        /\ is_key_released(k) => is_key_up(k)
        /\ is_key_pressed(k) => is_key_down(k)

\* the batch holds a Press and a Release of key k
Tapped(evs, k) ==
    /\ HasPressOf(evs, k)
    /\ \E i \in EventsOf(evs, k) : evs[i].kind = "Release"

\* C37 amended: after every refresh that returns Continue, a key in the
\* released-set is not in the down-table and a key in the pressed-set is,
\* unless, in enhanced mode, the batch held a Press and a Release of that key.
C37_SetsAgreeUnlessTapped ==
    [][RefreshStep =>
          \A k \in KeyboardKeys :
              (~enhanced_keyboard \/ ~Tapped(event_queue, k)) =>
                  /\ k \in keys_released_this_update' => k \notin DOMAIN keys_down'
                  /\ k \in keys_pressed_this_update' => k \in DOMAIN keys_down']_vars

\* a fallback refresh that evicted A, reported it released, and took a Press of C
C37_Witness ==
    /\ ~enhanced_keyboard
    /\ last_result = Continue
    /\ is_key_released("A")
    /\ is_key_up("A")
    /\ is_key_pressed("C")
    /\ is_key_down("C")

(***************************************************************************)
(* Claims about failed renders (SpecCanvas).                               *)
(***************************************************************************)
\* a step of SpecCanvas in which render returned an error
FailedRenderStep ==
    /\ render_result' = "Err"
    /\ buffer' = buffer
    /\ width' = width
    /\ height' = height
    /\ fresh' = fresh
    /\ clean' = clean

\* C38: a render that fails leaves previous_buffer unchanged, so the next
\* successful render still emits every cell that differs from the last frame
\* that was written: after a failed render the patches of the canvas hold every
\* cell whose upper or lower pixel differs from previous_buffer.
C38_FailedRenderKeepsBaseline ==
    /\ [][FailedRenderStep => previous_buffer' = previous_buffer]_vars
    /\ [](render_result = "Err" =>
            ChangedCells \subseteq
                PatchCells(calculate_patches(width, height, buffer, previous_buffer)))

(***************************************************************************)
(* Claims about the tick duration, checked under SpecLoopAnyRate.          *)
(***************************************************************************)
\* C39: for every update rate accepted by PixelLoop::new (every rate > 0) the
\* tick duration is greater than 0, so the drain loop of next_loop ends after
\* finitely many update invocations in every iteration.
C39_TickPositiveDrainEnds ==
    /\ update_fps > 0 => update_timestep > 0
    /\ loop_status # "hung"

====
